---- MODULE Spec2Model ----
(***************************************************************************)
(* A model of the Kubernetes API reverse proxy of netmaker-k8s-ops         *)
(* (internal/proxy/proxy.go, internal/proxy/api.go): the Identity Mapping  *)
(* Store, the per-request authentication middleware and the management     *)
(* API.                                                                    *)
(*                                                                         *)
(* Spec          the running process, one action per HTTP handler          *)
(* SpecAnyMode   the same handlers around a middleware built from an       *)
(*               arbitrary ProxyConfig value                               *)
(* SpecStore     goroutines calling the store's methods, one step per      *)
(*               lock acquisition and one per critical section             *)
(* SpecClient    SpecStore plus a caller that mutates what GetAllMappings  *)
(*               returned to it                                            *)
(* SpecLocator   getWireGuardInterfaceIP: one step per attempt and one     *)
(*               per wait                                                  *)
(* SpecSync      the external API sync: startExternalAPISync's loop, the   *)
(*               manual sync endpoint and the management writes            *)
(* SpecLifecycle StartK8sProxy and StartAPIServer from start to return,    *)
(*               with the sync loop, the cancellation and the WaitGroup;   *)
(*               SpecLifecycleFair adds the scheduling of the goroutines   *)
(* SpecForward   proxied requests whose round trip fails, through          *)
(*               proxy.ErrorHandler                                        *)
(* SpecProcess   SpecSync plus the proxied requests and GET of the         *)
(*               management API                                            *)
(* SpecRequests  proxied requests, forwarded or failing, around a          *)
(*               middleware of any mode                                    *)
(* SpecPeer      proxied requests that carry X-Forwarded-For or X-Real-IP  *)
(* SpecApply     the sync loop applying a response entry by entry, next    *)
(*               to the store's other callers                              *)
(* SpecInterval  getNMAPIConfig over values of EXTERNAL_API_SYNC_INTERVAL, *)
(*               feeding startExternalAPISync                              *)
(***************************************************************************)
EXTENDS Integers, Sequences, FiniteSets, TLC

VARIABLES
    proxyConfig,  \* ProxyConfig: Mode, ImpersonateUser, ImpersonateGroups
    restConfig,   \* the rest.Config credentials the middleware consults
    Mappings,     \* globalUserIPMap.UserIPMap.Mappings: ip -> [User, Groups]
    heap,         \* backing arrays of the []string values the maps refer to
    mutex,        \* globalUserIPMap.mutex: [writer, readers]
    gor,          \* goroutines inside a store method (SpecStore)
    last,         \* the HTTP exchange that produced the current state (Spec)
    lastWrite,    \* history: per ip, the last write that took effect
    loc,          \* getWireGuardInterfaceIP: its retry loop (SpecLocator)
    sync,         \* startExternalAPISync: its configuration and loop (SpecSync)
    life          \* the process: cancellation, WaitGroup, the two servers (SpecLifecycle)

vars == <<proxyConfig, restConfig, Mappings, heap, mutex, gor, last, lastWrite,
          loc, sync, life>>

(***************************************************************************)
(* Bounds of the model.                                                    *)
(***************************************************************************)
MaxGroups == 2
NumGoroutines == 2

IPNames == <<"10.0.0.1", "10.0.0.2">>
GroupNames == <<"g1", "g2", "g3", "g4">>

IPs == {IPNames[i] : i \in 1..Len(IPNames)}
Users == {"alice", "bob"}
GroupLists == {SubSeq(GroupNames, 1, n) : n \in 0..MaxGroups}
Goroutines == 1..NumGoroutines

(***************************************************************************)
(* Program constants.                                                      *)
(***************************************************************************)
AuthMode == "auth"
NoAuthMode == "noauth"
StatusOK == 200
StatusBadRequest == 400
StatusUnauthorized == 401
StatusInternalServerError == 500

(***************************************************************************)
(* Strings.  A Go string is a TLA+ string; where the code looks inside a   *)
(* string (ToLower, Split, TrimSpace) the environment value is given as    *)
(* its sequence of characters.                                             *)
(***************************************************************************)
RECURSIVE Join(_, _)
Join(elems, sep) ==
    IF Len(elems) = 0 THEN ""
    ELSE IF Len(elems) = 1 THEN elems[1]
    ELSE elems[1] \o sep \o Join(Tail(elems), sep)

RECURSIVE Str(_)
Str(chars) == IF Len(chars) = 0 THEN "" ELSE Head(chars) \o Str(Tail(chars))

UpperCase == <<"A", "B", "G", "H", "N", "O", "S", "T", "U">>
LowerCase == <<"a", "b", "g", "h", "n", "o", "s", "t", "u">>

LowerChar(c) ==
    IF \E i \in 1..Len(UpperCase) : UpperCase[i] = c
    THEN LowerCase[CHOOSE i \in 1..Len(UpperCase) : UpperCase[i] = c]
    ELSE c

ToLower_Identity(chars) == chars

ToLower(chars) == [i \in 1..Len(chars) |-> LowerChar(chars[i])]

RECURSIVE Split(_, _)
Split(chars, sep) ==
    IF \E i \in 1..Len(chars) : chars[i] = sep
    THEN LET i == CHOOSE j \in 1..Len(chars) :
                      chars[j] = sep /\ \A k \in 1..(j - 1) : chars[k] # sep
         IN <<SubSeq(chars, 1, i - 1)>> \o Split(SubSeq(chars, i + 1, Len(chars)), sep)
    ELSE <<chars>>

IsSpace(c) == c \in {" ", "\t", "\n"}

RECURSIVE TrimLeft(_)
TrimLeft(chars) ==
    IF Len(chars) > 0 /\ IsSpace(Head(chars)) THEN TrimLeft(Tail(chars)) ELSE chars

RECURSIVE TrimRight(_)
TrimRight(chars) ==
    IF Len(chars) > 0 /\ IsSpace(chars[Len(chars)])
    THEN TrimRight(SubSeq(chars, 1, Len(chars) - 1))
    ELSE chars

TrimSpace(chars) == TrimRight(TrimLeft(chars))

\* The characters of a string.
Chars(s) == [i \in 1..Len(s) |-> SubSeq(s, i, i)]

Digits == <<"0", "1", "2", "3", "4", "5", "6", "7", "8", "9">>

IsDigit(c) == \E i \in 1..Len(Digits) : Digits[i] = c

DigitValue(c) == (CHOOSE i \in 1..Len(Digits) : Digits[i] = c) - 1

RECURSIVE ParseDigits(_, _)
ParseDigits(chars, acc) ==
    IF chars = <<>> THEN acc
    ELSE ParseDigits(Tail(chars), acc * 10 + DigitValue(Head(chars)))

\* net.ParseIP(s) != nil, for dotted-decimal IPv4 text.
IsIPParts(parts) ==
    /\ Len(parts) = 4
    /\ \A i \in 1..4 :
          /\ Len(parts[i]) \in 1..3
          /\ \A j \in 1..Len(parts[i]) : IsDigit(parts[i][j])
          /\ ParseDigits(parts[i], 0) <= 255

IsIPLiteral(chars) == IsIPParts(Split(chars, "."))

(***************************************************************************)
(* 64-bit integers.  The values of int and time.Duration do not fit the    *)
(* integers of the checker, so a natural number that can be large is its   *)
(* decimal numeral: the sequence of its digits, most significant first,    *)
(* without leading zeros (<<>> is 0).                                      *)
(***************************************************************************)
Canonical(n) ==
    IF \A i \in 1..Len(n) : n[i] = 0 THEN <<>>
    ELSE LET first == CHOOSE i \in 1..Len(n) :
                          n[i] # 0 /\ \A j \in 1..(i - 1) : n[j] = 0
         IN SubSeq(n, first, Len(n))

\* The numeral of a text of digits, and of a small number.
Numeral(chars) == Canonical([i \in 1..Len(chars) |-> DigitValue(chars[i])])

RECURSIVE NumeralOf(_)
NumeralOf(n) == IF n = 0 THEN <<>> ELSE NumeralOf(n \div 10) \o <<n % 10>>

\* a < b, for sequences of digits of one length.
LexLess(a, b) ==
    \E j \in 1..Len(a) : a[j] < b[j] /\ \A k \in 1..(j - 1) : a[k] = b[k]

\* a < b.
NatLess(a, b) == Len(a) < Len(b) \/ (Len(a) = Len(b) /\ LexLess(a, b))

\* a - b, for b <= a: digit i borrows when the digits after it are less in a
\* than in b.
NatSub(a, b) ==
    LET len == Len(a)
        sub == [i \in 1..(len - Len(b)) |-> 0] \o b
        borrow(i) == IF LexLess(SubSeq(a, i + 1, len), SubSeq(sub, i + 1, len))
                     THEN 1 ELSE 0
    IN Canonical([i \in 1..len |-> (a[i] - sub[i] - borrow(i) + 10) % 10])

\* (r * 10^Len(n) + n) % m: r is reduced below m, then takes the next digit
\* of n.
RECURSIVE NatMod(_, _, _)
NatMod(n, m, r) ==
    IF ~NatLess(r, m) THEN NatMod(n, m, NatSub(r, m))
    ELSE IF n = <<>> THEN r
    ELSE NatMod(Tail(n), m, Canonical(r \o <<Head(n)>>))

\* math.MaxInt64, 2^63 and 2^64.
MaxInt64 == Numeral(Chars("9223372036854775807"))

TwoTo63 == Numeral(Chars("9223372036854775808"))

TwoTo64 == Numeral(Chars("18446744073709551616"))

\* A time.Duration: an int64 of nanoseconds, as sign and magnitude.
ZeroDuration == [neg |-> FALSE, ns |-> <<>>]

Positive(d) == ~d.neg /\ d.ns # <<>>

\* The int64 with the bits of u, 0 <= u < 2^64.
Int64(u) ==
    IF NatLess(MaxInt64, u) THEN [neg |-> TRUE, ns |-> NatSub(TwoTo64, u)]
    ELSE [neg |-> FALSE, ns |-> u]

\* time.Duration(secs) * time.Second, for secs >= 0: the product of two
\* int64 wraps around.
Seconds(secs) == Int64(NatMod(secs \o [i \in 1..9 |-> 0], TwoTo64, <<>>))

\* strconv.Atoi on a 64-bit build, with the value as sign and numeral: the
\* text is an optional sign and digits, and a value outside int64 is a range
\* error.
ParseInt(chars) ==
    LET signed == chars # <<>> /\ Head(chars) \in {"+", "-"}
        digits == IF signed THEN Tail(chars) ELSE chars
        neg == signed /\ Head(chars) = "-"
        abs == Numeral(digits)
    IN IF \/ digits = <<>>
          \/ \E i \in 1..Len(digits) : ~IsDigit(digits[i])
          \/ NatLess(IF neg THEN TwoTo63 ELSE MaxInt64, abs)
       THEN [err |-> TRUE, neg |-> FALSE, abs |-> <<>>]
       ELSE [err |-> FALSE, neg |-> neg, abs |-> abs]

(***************************************************************************)
(* HTTP headers: a function from the names of the headers present to their *)
(* values.                                                                 *)
(***************************************************************************)
NoHeaders == [k \in {} |-> ""]

SetHeader(h, k, v) == [x \in DOMAIN h \cup {k} |-> IF x = k THEN v ELSE h[x]]

GetHeader(h, k) == IF k \in DOMAIN h THEN h[k] ELSE ""

ImpersonateHeaders ==
    {"Impersonate-User", "Impersonate-Group",
     "Impersonate-Extra-Original-User", "Impersonate-Extra-Original-Group"}

\* The Impersonate-* headers of a header set.
ImpersonateView(h) == [k \in DOMAIN h \cap ImpersonateHeaders |-> h[k]]

(***************************************************************************)
(* Slices.  A []string is a reference into heap; NilSlice is the nil (or   *)
(* empty) slice.  A slice handed to the store is stored as it is, without  *)
(* copying its backing array.                                              *)
(*                                                                         *)
(* Addresses are not observable, so each state names a backing array by    *)
(* the first place that refers to it: the store's entries, then the last   *)
(* exchange, then the goroutines, each in the order of IPNames.            *)
(***************************************************************************)
NilSlice == 0

Deref(h, ref) == IF ref = NilSlice THEN <<>> ELSE h[ref]

\* An address no live slice has.
FreshRef(h) ==
    IF DOMAIN h = {} THEN 1
    ELSE (CHOOSE r \in DOMAIN h : \A q \in DOMAIN h : q <= r) + 1

\* A new slice holding elems (json decoding of a request body).
NewSliceRef(h, elems) == IF Len(elems) = 0 THEN NilSlice ELSE FreshRef(h)

NewSliceHeap(h, ref, elems) ==
    IF ref = NilSlice THEN h
    ELSE [r \in DOMAIN h \cup {ref} |-> IF r = ref THEN elems ELSE h[r]]

\* The places that may refer to a slice, in order.
MapSlots(m) ==
    [i \in 1..Len(IPNames) |->
        IF IPNames[i] \in DOMAIN m THEN m[IPNames[i]].Groups ELSE NilSlice]

GoroutineSlots(r) == <<r.groups>>

RECURSIVE GoroutinesSlots(_, _)
GoroutinesSlots(g, n) ==
    IF n = 0 THEN <<>> ELSE GoroutinesSlots(g, n - 1) \o GoroutineSlots(g[n])

Slots(m, g, l) ==
    MapSlots(m) \o <<l.groups>> \o MapSlots(l.data) \o GoroutinesSlots(g, NumGoroutines)

\* The name of slice ref: the first slot that refers to it.
SlotOf(slots, ref) ==
    IF ref = NilSlice THEN NilSlice
    ELSE CHOOSE i \in 1..Len(slots) :
             slots[i] = ref /\ \A j \in 1..(i - 1) : slots[j] # ref

RenameMap(slots, m) ==
    [ip \in DOMAIN m |-> [User |-> m[ip].User, Groups |-> SlotOf(slots, m[ip].Groups)]]

\* The state (map m, goroutines g, last exchange l, heap h) with every slice
\* renamed to its first slot, and the arrays nothing refers to collected.
Normalize(m, g, l, h) ==
    LET slots == Slots(m, g, l)
        named == {i \in 1..Len(slots) :
                     slots[i] # NilSlice /\ SlotOf(slots, slots[i]) = i}
    IN [m |-> RenameMap(slots, m),
        g |-> [q \in DOMAIN g |-> [g[q] EXCEPT !.groups = SlotOf(slots, @)]],
        l |-> [l EXCEPT !.groups = SlotOf(slots, @), !.data = RenameMap(slots, @)],
        h |-> [i \in named |-> h[slots[i]]]]

(***************************************************************************)
(* The Identity Mapping Store: the methods of UserIPMapWithMutex on the    *)
(* map value m.  The lock each of them takes is modelled in SpecStore.     *)
(***************************************************************************)
NewUserIPMap == [k \in {} |-> [User |-> "", Groups |-> NilSlice]]

SetUserMapping_DropsOthers(m, ip, user, groups) ==
    [k \in {ip} |-> [User |-> user, Groups |-> groups]]

SetUserMapping_KeepsExisting(m, ip, user, groups) ==
    [k \in DOMAIN m \cup {ip} |->
        IF k \in DOMAIN m THEN m[k] ELSE [User |-> user, Groups |-> groups]]

SetUserMapping(m, ip, user, groups) ==
    [k \in DOMAIN m \cup {ip} |->
        IF k = ip THEN [User |-> user, Groups |-> groups] ELSE m[k]]

GetUserMapping_NeverFound(m, ip) ==
    [user |-> "", groups |-> NilSlice, exists |-> FALSE]

GetUserMapping(m, ip) ==
    IF ip \notin DOMAIN m
    THEN [user |-> "", groups |-> NilSlice, exists |-> FALSE]
    ELSE [user |-> m[ip].User, groups |-> m[ip].Groups, exists |-> TRUE]

RemoveUserMapping_Clears(m, ip) == NewUserIPMap

RemoveUserMapping(m, ip) == [k \in DOMAIN m \ {ip} |-> m[k]]

GetAllMappings_OnlyGrouped(m) ==
    [ip \in {k \in DOMAIN m : m[k].Groups # NilSlice} |-> m[ip]]

GetAllMappings(m) == [ip \in DOMAIN m |-> m[ip]]

\* sync.RWMutex: Lock waits for the writer and all readers to leave, RLock for
\* the writer.
CanLock_NoExclusion(mu) == TRUE

CanLock(mu) == mu.writer = 0 /\ mu.readers = {}

CanRLock_IgnoresWriter(mu) == TRUE

CanRLock(mu) == mu.writer = 0

(***************************************************************************)
(* What the store holds, with every slice read through: ip -> (user,       *)
(* groups).                                                                *)
(***************************************************************************)
StoreView == [ip \in DOMAIN Mappings |->
                 [user |-> Mappings[ip].User, groups |-> Deref(heap, Mappings[ip].Groups)]]

(***************************************************************************)
(* Configuration.                                                          *)
(***************************************************************************)
\* getProxyConfig, on the environment env.
getProxyConfig(env) ==
    LET mode == Str(ToLower(env.PROXY_MODE))
        Mode == CASE mode = "noauth" -> NoAuthMode
                  [] mode = "auth" -> AuthMode
                  [] OTHER -> AuthMode
        groupsStr == env.PROXY_IMPERSONATE_GROUPS
        parts == Split(groupsStr, ",")
    IN IF Mode = AuthMode
       THEN [Mode |-> Mode,
             ImpersonateUser |->
                 IF env.PROXY_IMPERSONATE_USER = "" THEN "wireguard-peer"
                 ELSE env.PROXY_IMPERSONATE_USER,
             ImpersonateGroups |->
                 IF Len(groupsStr) # 0
                 THEN [i \in 1..Len(parts) |-> Str(TrimSpace(parts[i]))]
                 ELSE <<"system:authenticated", "wireguard-peers">>]
       ELSE [Mode |-> Mode, ImpersonateUser |-> "", ImpersonateGroups |-> <<>>]

\* Environments the process may be started in.
Env(mode, user, groups) ==
    [PROXY_MODE |-> mode, PROXY_IMPERSONATE_USER |-> user,
     PROXY_IMPERSONATE_GROUPS |-> groups]

Environments ==
    {Env(<<>>, "", <<>>),
     Env(<<"a", "u", "t", "h">>, "", <<>>),
     Env(<<"N", "o", "A", "u", "t", "h">>, "", <<>>),
     Env(<<"n", "o", "a", "u", "t", "h">>, "svc-peer", <<"o", "p", "s">>),
     Env(<<"b", "o", "g", "u", "s">>, "svc-peer",
         <<"d", "e", "v", ",", " ", "o", "p", "s">>)}

\* Credentials rest.InClusterConfig or the kubeconfig may resolve to.
Creds(token, cert, key, username, password) ==
    [BearerToken |-> token, CertFile |-> cert, KeyFile |-> key,
     Username |-> username, Password |-> password]

RestConfigs ==
    {Creds("sa-token", "c.crt", "c.key", "admin", "pw"),
     Creds("", "c.crt", "c.key", "admin", "pw"),
     Creds("", "c.crt", "", "admin", "pw"),
     Creds("", "", "", "admin", ""),
     Creds("", "", "", "", "")}

(***************************************************************************)
(* The per-request authentication middleware (createAuthMiddleware).       *)
(***************************************************************************)
\* A proxied request as it reaches the router.
Request(clientIP, method, route, headers) ==
    [clientIP |-> clientIP, method |-> method, route |-> route, headers |-> headers]

\* The engine's validateHeader with every proxy trusted (the default of
\* gin.New()): the entries of the header are read from the right, an entry
\* that is no IP makes the header invalid, and the leftmost entry is the
\* client.
ValidateItems(header, items) ==
    IF header = "" \/ \E i \in 1..Len(items) : ~IsIPLiteral(TrimSpace(items[i]))
    THEN [valid |-> FALSE, ip |-> ""]
    ELSE [valid |-> TRUE, ip |-> Str(TrimSpace(items[1]))]

ValidateHeader(header) == ValidateItems(header, Split(Chars(header), ","))

ClientIP_RemoteAddr(req) == req.clientIP

\* c.ClientIP() on an engine made by gin.New() and left as it is:
\* ForwardedByClientIP is true, RemoteIPHeaders is X-Forwarded-For and
\* X-Real-IP, and every remote address is a trusted proxy.  req.clientIP is
\* the peer address of the connection (Request.RemoteAddr).
FirstValid(xff, xri, remoteIP) ==
    IF xff.valid THEN xff.ip
    ELSE IF xri.valid THEN xri.ip
    ELSE remoteIP

ClientIP(req) ==
    FirstValid(ValidateHeader(GetHeader(req.headers, "X-Forwarded-For")),
               ValidateHeader(GetHeader(req.headers, "X-Real-IP")),
               req.clientIP)

\* Request.SetBasicAuth: "Basic " + base64(username:password)
Base64(s) == "b64(" \o s \o ")"

BasicAuth(username, password) == "Basic " \o Base64(username \o ":" \o password)

\* case AuthMode: the headers of the request after impersonation.  m, h: the
\* store's map and the heap.
\* The user and groups to impersonate: the mapping's, or the configured ones.
ResolveIdentity(pc, h, mapping) ==
    [impersonateUser |-> IF mapping.exists THEN mapping.user ELSE pc.ImpersonateUser,
     impersonateGroups |-> IF mapping.exists THEN Deref(h, mapping.groups)
                           ELSE pc.ImpersonateGroups]

\* if impersonateUser != "" { Header.Set("Impersonate-User", ...) }
SetImpersonateUser(headers, impersonateUser) ==
    IF impersonateUser # ""
    THEN SetHeader(headers, "Impersonate-User", impersonateUser)
    ELSE headers

\* if len(impersonateGroups) > 0 { Header.Set("Impersonate-Group", ...) }
SetImpersonateGroup(headers, impersonateGroups) ==
    IF Len(impersonateGroups) > 0
    THEN SetHeader(headers, "Impersonate-Group", Join(impersonateGroups, ","))
    ELSE headers

SetImpersonation(headers, id, clientIP) ==
    SetHeader(SetHeader(SetImpersonateGroup(SetImpersonateUser(headers,
                                                               id.impersonateUser),
                                            id.impersonateGroups),
                        "Impersonate-Extra-Original-User", clientIP),
              "Impersonate-Extra-Original-Group", "wireguard-peers")

ImpersonateFor(pc, m, h, req, clientIP) ==
    SetImpersonation(req.headers, ResolveIdentity(pc, h, GetUserMapping(m, clientIP)),
                     clientIP)

Impersonate(pc, m, h, req) == ImpersonateFor(pc, m, h, req, ClientIP(req))

ModeStep_NoAuthImpersonates(pc, m, h, req) ==
    CASE pc.Mode \in {NoAuthMode, AuthMode} ->
            [aborted |-> FALSE, status |-> 0, headers |-> Impersonate(pc, m, h, req)]
      [] OTHER ->
            [aborted |-> TRUE, status |-> StatusInternalServerError,
             headers |-> req.headers]

ModeStep_UnknownPasses(pc, m, h, req) ==
    CASE pc.Mode = AuthMode ->
            [aborted |-> FALSE, status |-> 0, headers |-> Impersonate(pc, m, h, req)]
      [] OTHER ->
            [aborted |-> FALSE, status |-> 0, headers |-> req.headers]

\* The switch on proxyConfig.Mode.
ModeStep(pc, m, h, req) ==
    CASE pc.Mode = NoAuthMode ->
            [aborted |-> FALSE, status |-> 0, headers |-> req.headers]
      [] pc.Mode = AuthMode ->
            [aborted |-> FALSE, status |-> 0, headers |-> Impersonate(pc, m, h, req)]
      [] OTHER ->
            [aborted |-> TRUE, status |-> StatusInternalServerError,
             headers |-> req.headers]

CredentialStep_BasicFirst(config, headers) ==
    IF config.Username # "" /\ config.Password # ""
    THEN [aborted |-> FALSE, status |-> 0,
          headers |-> SetHeader(headers, "Authorization",
                                BasicAuth(config.Username, config.Password))]
    ELSE IF config.BearerToken # ""
    THEN [aborted |-> FALSE, status |-> 0,
          headers |-> SetHeader(headers, "Authorization", "Bearer " \o config.BearerToken)]
    ELSE IF config.CertFile # "" /\ config.KeyFile # ""
    THEN [aborted |-> FALSE, status |-> 0, headers |-> headers]
    ELSE IF GetHeader(headers, "Authorization") = ""
    THEN [aborted |-> TRUE, status |-> StatusUnauthorized, headers |-> headers]
    ELSE [aborted |-> FALSE, status |-> 0, headers |-> headers]

\* The credentials the proxy itself presents to the API server.
CredentialStep(config, headers) ==
    IF config.BearerToken # ""
    THEN [aborted |-> FALSE, status |-> 0,
          headers |-> SetHeader(headers, "Authorization", "Bearer " \o config.BearerToken)]
    ELSE IF config.CertFile # "" /\ config.KeyFile # ""
    THEN [aborted |-> FALSE, status |-> 0, headers |-> headers]
    ELSE IF config.Username # "" /\ config.Password # ""
    THEN [aborted |-> FALSE, status |-> 0,
          headers |-> SetHeader(headers, "Authorization",
                                BasicAuth(config.Username, config.Password))]
    ELSE IF GetHeader(headers, "Authorization") = ""
    THEN [aborted |-> TRUE, status |-> StatusUnauthorized, headers |-> headers]
    ELSE [aborted |-> FALSE, status |-> 0, headers |-> headers]

\* The whole middleware: aborted with a status, or c.Next() with the headers
\* the route handler will forward.
AfterCredentials(mode, cred) ==
    IF mode.aborted THEN mode
    ELSE IF cred.aborted THEN cred
    ELSE [aborted |-> FALSE, status |-> 0,
          headers |-> SetHeader(cred.headers, "User-Agent", "netmaker-k8s-proxy/1.0")]

AfterMode(config, mode) == AfterCredentials(mode, CredentialStep(config, mode.headers))

AuthMiddleware(config, pc, m, h, req) == AfterMode(config, ModeStep(pc, m, h, req))

(***************************************************************************)
(* State.                                                                  *)
(***************************************************************************)
\* Header sets a client may send.
KubectlHeaders == ("Authorization" :> "Bearer client-token" @@ "User-Agent" :> "kubectl")

SpoofingHeaders ==
    ("Impersonate-User" :> "system:admin" @@ "Impersonate-Group" :> "system:masters"
        @@ "Impersonate-Extra-Original-User" :> "127.0.0.1"
        @@ "Authorization" :> "Bearer client-token")

\* The requests clients send to the proxy: method, route and headers.
ProxyRequests ==
    {[method |-> "GET", route |-> "/api/*path", headers |-> NoHeaders],
     [method |-> "GET", route |-> "/apis/*path", headers |-> KubectlHeaders],
     [method |-> "POST", route |-> "/api/*path", headers |-> SpoofingHeaders],
     [method |-> "OPTIONS", route |-> "/apis/*path", headers |-> KubectlHeaders],
     [method |-> "OPTIONS", route |-> "/version", headers |-> SpoofingHeaders],
     [method |-> "GET", route |-> "/metrics", headers |-> NoHeaders]}

\* models.UserIPMap as decoded from a response body: no mappings.
NoMappings == [ip \in {} |-> [User |-> "", Groups |-> <<>>]]

\* No answer of the external API.
NoResponse == [err |-> FALSE, StatusCode |-> 0, decodes |-> FALSE, Mappings |-> NoMappings]

\* A Go error as the proxy's error handler sees it: the sentinels errors.Is
\* finds in its chain (is) and its Error() text (message).  NoError is nil.
NoError == [is |-> {}, message |-> ""]

\* No exchange yet.  For a call of fetchUserMappingsFromAPI: its caller (via),
\* whether it sent a request (requested), the answer (response) and whether it
\* returned an error (err); as history, whether the exchange before was a
\* successful fetch with the same answer (again), and for a successful fetch
\* that follows a management POST or DELETE for an ip of its payload, which
\* of the two (undid) and the ip.
NoExchange ==
    [kind |-> "none", ip |-> "", method |-> "", route |-> "", user |-> "",
     groups |-> NilSlice, inHeaders |-> NoHeaders, status |-> 0, aborted |-> FALSE,
     forwarded |-> FALSE, outHeaders |-> NoHeaders, data |-> NewUserIPMap,
     found |-> FALSE, hadMapping |-> FALSE,
     via |-> "", requested |-> FALSE, response |-> NoResponse, err |-> FALSE,
     again |-> FALSE, transport |-> NoError, logged |-> FALSE, body |-> "",
     cors |-> FALSE, remoteAddr |-> "", undid |-> ""]

\* lastWrite[ip]: what the last write to ip left there, and who wrote it.
NoWrite == [kind |-> "none", user |-> "", groups |-> <<>>, by |-> "none"]

\* A goroutine outside the store's methods.  Inside one: the method (op), its
\* arguments, where it is (pc: lock/rlock before the lock is granted, write/read
\* inside the critical section, ret when a writer has returned to its caller),
\* and, as history, the writers that were waiting in Lock() when it was granted
\* the lock (conc).
IdleGoroutine ==
    [pc |-> "idle", op |-> "none", ip |-> "", user |-> "", groups |-> NilSlice,
     conc |-> {}]

\* getWireGuardInterfaceIP not running.
IdleLocator ==
    [pc |-> "idle", interfaceName |-> "", maxRetries |-> 0, baseDelay |-> 0,
     maxDelay |-> 0, attempt |-> 0, delay |-> 0, waited |-> 0, slept |-> 0,
     outcome |-> "none", result |-> ""]

\* ExternalAPIConfig with nothing configured.
NoAPIConfig == [ServerDomain |-> "", APIToken |-> "", SyncInterval |-> ZeroDuration]

\* startExternalAPISync not running.  While a decoded response is applied to
\* the store entry by entry (SpecApply): the response (payload) and the IPs
\* SetUserIPMapping has been called for (applied).
IdleSync ==
    [pc |-> "idle", config |-> NoAPIConfig, ticker |-> ZeroDuration, ticks |-> 0, fetches |-> 0,
     failures |-> 0, tickC |-> FALSE, payload |-> NoMappings, applied |-> {}]

\* An environment variable: whether it is set, and its value.
Unset == [set |-> FALSE, value |-> ""]

\* StartK8sProxy or StartAPIServer not called yet.  Called: where it is (pc),
\* its call of getWireGuardInterfaceIP (l) and whether it made one
\* (consulted), its bindIP and srv.Addr, what became of the goroutine of
\* srv.ListenAndServe (listening), the wg.Done() calls it made (done) and how
\* long srv.Shutdown took (shutdownSeconds).
IdleTask ==
    [pc |-> "idle", l |-> IdleLocator, consulted |-> FALSE, bindIP |-> "",
     addr |-> "", listening |-> "no", done |-> 0, shutdownSeconds |-> 0]

\* The process before its tasks are started: the context not cancelled, the
\* WaitGroup at zero.  As history, where each server was when the context was
\* cancelled (cancelAt).
IdleLife ==
    [env |-> [PROXY_BIND_IP |-> Unset, API_BIND_IP |-> Unset],
     started |-> FALSE, cancelled |-> FALSE, wg |-> 0, waited |-> FALSE,
     exited |-> FALSE, proxy |-> IdleTask, api |-> IdleTask,
     cancelAt |-> [proxy |-> "", api |-> ""]]

\* Neither the locator nor the sync loop runs.
InitIdle == loc = IdleLocator /\ sync = IdleSync /\ life = IdleLife

InitStore ==
    /\ Mappings = NewUserIPMap
    /\ heap = [r \in {} |-> <<>>]
    /\ mutex = [writer |-> 0, readers |-> {}]
    /\ gor = [g \in Goroutines |-> IdleGoroutine]
    /\ last = NoExchange
    /\ lastWrite = [ip \in IPs |-> NoWrite]

\* The process after StartK8sProxy read its configuration.
Init ==
    /\ \E env \in Environments : proxyConfig = getProxyConfig(env)
    /\ restConfig \in RestConfigs
    /\ InitStore
    /\ InitIdle

\* The next store, goroutines, last exchange and heap.
Commit(m, g, l, h) ==
    LET n == Normalize(m, g, l, h)
    IN /\ Mappings' = n.m
       /\ gor' = n.g
       /\ last' = n.l
       /\ heap' = n.h

(***************************************************************************)
(* The proxy server: one action per proxied request.                       *)
(***************************************************************************)
\* The routes whose handler answers OPTIONS itself.
CORSRoutes == {"/api/*path", "/apis/*path"}

\* The route handler for /api/*path, /apis/*path, /version, /metrics, run on
\* the request the middleware let through: OPTIONS on a CORS route is answered
\* 200 by the handler, anything else is forwarded through proxy.ServeHTTP.
\* The answer carries the three Access-Control-Allow-* headers (cors), set by
\* the handler for OPTIONS and by proxy.ModifyResponse on a forwarded answer.
ProxyRoute(req, mw) ==
    [NoExchange EXCEPT
        !.kind = "proxy", !.ip = ClientIP(req), !.remoteAddr = req.clientIP,
        !.method = req.method, !.route = req.route,
        !.inHeaders = req.headers, !.status = StatusOK,
        !.forwarded = ~(req.method = "OPTIONS" /\ req.route \in CORSRoutes),
        !.outHeaders = mw.headers, !.cors = TRUE]

\* c.JSON(status, ...); c.Abort(): no later handler runs.
Aborted(req, mw) ==
    [NoExchange EXCEPT
        !.kind = "proxy", !.ip = ClientIP(req), !.remoteAddr = req.clientIP,
        !.method = req.method, !.route = req.route,
        !.inHeaders = req.headers, !.status = mw.status, !.aborted = TRUE]

\* c.Next(): the route handler runs unless the middleware aborted.
AfterMiddleware(req, mw) == IF mw.aborted THEN Aborted(req, mw) ELSE ProxyRoute(req, mw)

ServeProxy(pc, config, m, h, req) ==
    AfterMiddleware(req, AuthMiddleware(config, pc, m, h, req))

ProxyRequest_CachesIdentity(clientIP, r) ==
    /\ Commit(SetUserMapping(Mappings, clientIP, proxyConfig.ImpersonateUser, NilSlice),
              gor,
              ServeProxy(proxyConfig, restConfig, Mappings, heap,
                         Request(clientIP, r.method, r.route, r.headers)),
              heap)
    /\ UNCHANGED <<life, loc, sync, proxyConfig, restConfig, mutex, lastWrite>>

ProxyRequest(clientIP, r) ==
    /\ Commit(Mappings, gor,
              ServeProxy(proxyConfig, restConfig, Mappings, heap,
                         Request(clientIP, r.method, r.route, r.headers)),
              heap)
    /\ UNCHANGED <<life, loc, sync, proxyConfig, restConfig, mutex, lastWrite>>

(***************************************************************************)
(* The management server: one action per request.                          *)
(***************************************************************************)
\* Request bodies of POST /admin/user-mappings: the well-formed ones, and some
\* with ip or user missing.
PostBodies ==
    [ip : IPs, user : Users, groups : GroupLists]
    \cup {[ip |-> "", user |-> "alice", groups |-> <<"g1">>],
          [ip |-> "10.0.0.1", user |-> "", groups |-> <<"g1">>],
          [ip |-> "", user |-> "", groups |-> <<>>]}

BindOK_IPOnly(ip, user) == ip # ""

\* ShouldBindJSON with binding:"required" on ip and user.
BindOK(ip, user) == ip # "" /\ user # ""

\* POST /admin/user-mappings
PostUserMapping(body) ==
    LET ip == body.ip
        user == body.user
        groups == body.groups
        ok == BindOK(ip, user)
        ref == IF ok THEN NewSliceRef(heap, groups) ELSE NilSlice
    IN /\ Commit(IF ok THEN SetUserMapping(Mappings, ip, user, ref) ELSE Mappings,
                 gor,
                 [NoExchange EXCEPT
                     !.kind = "post", !.ip = ip, !.user = user, !.groups = ref,
                     !.status = IF ok THEN StatusOK ELSE StatusBadRequest,
                     !.hadMapping = ip \in DOMAIN Mappings],
                 NewSliceHeap(heap, ref, groups))
       /\ lastWrite' = IF ok
                       THEN [lastWrite EXCEPT ![ip] =
                                [kind |-> "set", user |-> user, groups |-> groups,
                                 by |-> "post"]]
                       ELSE lastWrite
       /\ UNCHANGED <<life, loc, sync, proxyConfig, restConfig, mutex>>

DeleteUserMapping_NotFound(ip) ==
    LET ok == ip \in DOMAIN Mappings
    IN /\ Commit(IF ok THEN RemoveUserMapping(Mappings, ip) ELSE Mappings,
                 gor,
                 [NoExchange EXCEPT
                     !.kind = "delete", !.ip = ip,
                     !.status = IF ok THEN StatusOK ELSE 404,
                     !.hadMapping = ip \in DOMAIN Mappings],
                 heap)
       /\ lastWrite' = [lastWrite EXCEPT ![ip] = NoWrite]
       /\ UNCHANGED <<life, loc, sync, proxyConfig, restConfig, mutex>>

\* DELETE /admin/user-mappings/:ip
DeleteUserMapping(ip) ==
    LET ok == ip # ""
    IN /\ Commit(IF ok THEN RemoveUserMapping(Mappings, ip) ELSE Mappings,
                 gor,
                 [NoExchange EXCEPT
                     !.kind = "delete", !.ip = ip,
                     !.status = IF ok THEN StatusOK ELSE StatusBadRequest,
                     !.hadMapping = ip \in DOMAIN Mappings],
                 heap)
       /\ lastWrite' = IF ok THEN [lastWrite EXCEPT ![ip] = NoWrite] ELSE lastWrite
       /\ UNCHANGED <<life, loc, sync, proxyConfig, restConfig, mutex>>

\* GET /admin/user-mappings
GetUserMappings ==
    /\ Commit(Mappings, gor,
              [NoExchange EXCEPT
                  !.kind = "get", !.status = StatusOK,
                  !.data = GetAllMappings(Mappings)],
              heap)
    /\ UNCHANGED <<life, loc, sync, proxyConfig, restConfig, mutex, lastWrite>>

Next ==
    \/ \E ip \in IPs, r \in ProxyRequests : ProxyRequest(ip, r)
    \/ \E body \in PostBodies : PostUserMapping(body)
    \/ \E ip \in IPs : DeleteUserMapping(ip)
    \/ GetUserMappings

Spec == Init /\ [][Next]_vars

(***************************************************************************)
(* Properties of the proxy and the management API.  In Spec, last is the   *)
(* exchange whose handling produced the current state, so the store a      *)
(* proxied request was looked up in is the store of that state.            *)
(***************************************************************************)
Forwarded == last.kind = "proxy" /\ last.forwarded

\* The header k of the forwarded request is the one the client sent.
SameHeader(k) ==
    /\ (k \in DOMAIN last.outHeaders) = (k \in DOMAIN last.inHeaders)
    /\ GetHeader(last.outHeaders, k) = GetHeader(last.inHeaders, k)

\* The header k of the forwarded request is present with value v.
OutHeaderIs(k, v) == k \in DOMAIN last.outHeaders /\ last.outHeaders[k] = v

ResolvedUser ==
    IF last.ip \in DOMAIN Mappings THEN Mappings[last.ip].User
    ELSE proxyConfig.ImpersonateUser

ResolvedGroups ==
    IF last.ip \in DOMAIN Mappings THEN Deref(heap, Mappings[last.ip].Groups)
    ELSE proxyConfig.ImpersonateGroups

\* C1: in auth mode a forwarded request carries the identity resolved from its
\* client IP: the store's (user, groups) for that IP when it has a mapping, the
\* configured defaults when it has none; Impersonate-User is that user and
\* Impersonate-Group those groups joined by commas, each header being set only
\* when the resolved value is non-empty (and otherwise left as it arrived).
C1_AuthForwardCarriesResolvedIdentity ==
    (Forwarded /\ proxyConfig.Mode = AuthMode) =>
        /\ IF ResolvedUser # "" THEN OutHeaderIs("Impersonate-User", ResolvedUser)
           ELSE SameHeader("Impersonate-User")
        /\ IF ResolvedGroups # <<>>
           THEN OutHeaderIs("Impersonate-Group", Join(ResolvedGroups, ","))
           ELSE SameHeader("Impersonate-Group")

\* A forwarded auth-mode request from a mapped IP with two groups, whose
\* Impersonate-Group is the two names around a comma.
C1_Witness ==
    /\ Forwarded /\ proxyConfig.Mode = AuthMode
    /\ last.ip \in DOMAIN Mappings
    /\ ResolvedGroups = <<"g1", "g2">>
    /\ OutHeaderIs("Impersonate-User", Mappings[last.ip].User)
    /\ OutHeaderIs("Impersonate-Group", "g1,g2")
    /\ "Impersonate-User" \in DOMAIN last.inHeaders

\* C2: in noauth mode the Impersonate-* headers of the forwarded request are
\* exactly those of the inbound request, whatever the store contains.
C2_NoAuthAddsNoImpersonation ==
    (Forwarded /\ proxyConfig.Mode = NoAuthMode) =>
        ImpersonateView(last.outHeaders) = ImpersonateView(last.inHeaders)

\* A forwarded noauth request from an IP the store has a mapping for, which
\* arrived with an Impersonate-User header and leaves with the same one.
C2_Witness ==
    /\ Forwarded /\ proxyConfig.Mode = NoAuthMode
    /\ last.ip \in DOMAIN Mappings
    /\ "Impersonate-User" \in DOMAIN last.inHeaders
    /\ OutHeaderIs("Impersonate-User", last.inHeaders["Impersonate-User"])

\* C3: a request handled under a mode other than auth and noauth is answered
\* 500, aborted, and not forwarded.
C3_UnknownModeIs500 ==
    (last.kind = "proxy" /\ proxyConfig.Mode \notin {AuthMode, NoAuthMode}) =>
        /\ last.status = StatusInternalServerError
        /\ last.aborted
        /\ ~last.forwarded

\* A request with an Authorization header, under credentials with a bearer
\* token, rejected for the mode alone.
C3_Witness ==
    /\ last.kind = "proxy" /\ proxyConfig.Mode \notin {AuthMode, NoAuthMode}
    /\ last.status = StatusInternalServerError /\ ~last.forwarded
    /\ restConfig.BearerToken # ""
    /\ "Authorization" \in DOMAIN last.inHeaders

\* C4: a request that passed the mode step gets the upstream credentials by
\* priority: bearer token (Authorization overwritten), else client certificate
\* pair (Authorization untouched), else username and password (Basic), else
\* the request's own non-empty Authorization; without one it is answered 401,
\* aborted and not forwarded.
C4_CredentialPriority ==
    (last.kind = "proxy" /\ proxyConfig.Mode \in {AuthMode, NoAuthMode}) =>
        IF restConfig.BearerToken # ""
        THEN /\ ~last.aborted
             /\ OutHeaderIs("Authorization", "Bearer " \o restConfig.BearerToken)
        ELSE IF restConfig.CertFile # "" /\ restConfig.KeyFile # ""
        THEN ~last.aborted /\ SameHeader("Authorization")
        ELSE IF restConfig.Username # "" /\ restConfig.Password # ""
        THEN /\ ~last.aborted
             /\ OutHeaderIs("Authorization",
                            BasicAuth(restConfig.Username, restConfig.Password))
        ELSE IF GetHeader(last.inHeaders, "Authorization") # ""
        THEN ~last.aborted /\ SameHeader("Authorization")
        ELSE /\ last.status = StatusUnauthorized
             /\ last.aborted
             /\ ~last.forwarded

\* A request without Authorization under credentials that have a username but
\* no password: 401.
C4_Witness ==
    /\ last.kind = "proxy"
    /\ restConfig.BearerToken = "" /\ restConfig.Username # ""
    /\ last.status = StatusUnauthorized /\ last.aborted /\ ~last.forwarded

\* C5: while the last write to ip is a POST /admin/user-mappings that returned
\* 200 for (ip, user, groups), GET /admin/user-mappings includes that entry and
\* an auth-mode request from ip is forwarded with Impersonate-User = user.
C5_PostedMappingVisible ==
    \A ip \in IPs :
        lastWrite[ip].by = "post" =>
            /\ last.kind = "get" =>
                  /\ ip \in DOMAIN last.data
                  /\ last.data[ip].User = lastWrite[ip].user
                  /\ Deref(heap, last.data[ip].Groups) = lastWrite[ip].groups
            /\ (Forwarded /\ last.ip = ip /\ proxyConfig.Mode = AuthMode) =>
                  OutHeaderIs("Impersonate-User", lastWrite[ip].user)

\* An auth-mode request forwarded from an IP whose last write is a POST for
\* bob, carrying Impersonate-User: bob in place of the header it arrived with.
C5_Witness ==
    /\ Forwarded /\ proxyConfig.Mode = AuthMode
    /\ lastWrite[last.ip].by = "post"
    /\ lastWrite[last.ip].user = "bob"
    /\ "Impersonate-User" \in DOMAIN last.inHeaders
    /\ OutHeaderIs("Impersonate-User", "bob")

\* C10: DELETE /admin/user-mappings/{ip} answers 200 whether or not ip had a
\* mapping, removes that mapping and nothing else, and changes nothing when ip
\* had none: a repeated delete leaves the store of a single one.
C10_DeleteIdempotent ==
    [][last'.kind = "delete" =>
          /\ last'.status = StatusOK
          /\ StoreView' = [k \in DOMAIN StoreView \ {last'.ip} |-> StoreView[k]]
          /\ (last'.ip \notin DOMAIN Mappings => StoreView' = StoreView)]_vars

\* A delete of an IP that had no mapping, answered 200, with the other
\* mapping still there.
C10_Witness ==
    /\ last.kind = "delete" /\ ~last.hadMapping /\ last.status = StatusOK
    /\ DOMAIN Mappings # {}

\* The same handlers around a middleware built from any ProxyConfig value.
ProxyConfigs ==
    [Mode : {AuthMode, NoAuthMode, "", "AUTH", "passthrough"},
     ImpersonateUser : {"wireguard-peer"},
     ImpersonateGroups : {<<"system:authenticated", "wireguard-peers">>}]

InitAnyMode ==
    /\ proxyConfig \in ProxyConfigs
    /\ restConfig \in RestConfigs
    /\ InitStore
    /\ InitIdle

SpecAnyMode == InitAnyMode /\ [][Next]_vars

(***************************************************************************)
(* SpecStore: the store's methods as the handlers' goroutines run them, a  *)
(* step for the lock being granted and a step for the critical section     *)
(* with its deferred unlock.  last is what the step returned to its        *)
(* caller, if it returned anything.                                        *)
(***************************************************************************)
\* The identities written in SpecStore.
StoreIdentities ==
    {[user |-> "alice", groups |-> SubSeq(GroupNames, 1, MaxGroups)],
     [user |-> "bob", groups |-> <<>>]}

Enter(pc, op, ip) == [IdleGoroutine EXCEPT !.pc = pc, !.op = op, !.ip = ip]

\* SetUserIPMapping(ip, user, groups) is called with a newly decoded slice.
CallSet(g, ip, id) ==
    LET ref == NewSliceRef(heap, id.groups)
    IN /\ gor[g].pc = "idle"
       /\ Commit(Mappings,
                 [gor EXCEPT ![g] = [Enter("lock", "set", ip) EXCEPT
                                        !.user = id.user, !.groups = ref]],
                 NoExchange, NewSliceHeap(heap, ref, id.groups))
       /\ UNCHANGED <<life, loc, sync, proxyConfig, restConfig, mutex, lastWrite>>

CallRemove(g, ip) ==
    /\ gor[g].pc = "idle"
    /\ Commit(Mappings, [gor EXCEPT ![g] = Enter("lock", "remove", ip)],
              NoExchange, heap)
    /\ UNCHANGED <<life, loc, sync, proxyConfig, restConfig, mutex, lastWrite>>

CallGet(g, ip) ==
    /\ gor[g].pc = "idle"
    /\ Commit(Mappings, [gor EXCEPT ![g] = Enter("rlock", "get", ip)],
              NoExchange, heap)
    /\ UNCHANGED <<life, loc, sync, proxyConfig, restConfig, mutex, lastWrite>>

CallAll(g) ==
    /\ gor[g].pc = "idle"
    /\ Commit(Mappings, [gor EXCEPT ![g] = Enter("rlock", "all", "")],
              NoExchange, heap)
    /\ UNCHANGED <<life, loc, sync, proxyConfig, restConfig, mutex, lastWrite>>

\* uim.mutex.Lock() returns.
Lock(g) ==
    /\ gor[g].pc = "lock"
    /\ CanLock(mutex)
    /\ mutex' = [mutex EXCEPT !.writer = g]
    /\ Commit(Mappings,
              [gor EXCEPT
                  ![g].pc = "write",
                  ![g].conc = {q \in Goroutines \ {g} :
                                  gor[q].pc = "lock" /\ gor[q].op = "set"}],
              NoExchange, heap)
    /\ UNCHANGED <<life, loc, sync, proxyConfig, restConfig, lastWrite>>

\* uim.mutex.RLock() returns.
RLock(g) ==
    /\ gor[g].pc = "rlock"
    /\ CanRLock(mutex)
    /\ mutex' = [mutex EXCEPT !.readers = @ \cup {g}]
    /\ Commit(Mappings, [gor EXCEPT ![g].pc = "read"], NoExchange, heap)
    /\ UNCHANGED <<life, loc, sync, proxyConfig, restConfig, lastWrite>>

\* Another goroutine is inside the critical section with g: a data race on the
\* map, which the lock excludes.
Racing(g) == \E q \in Goroutines \ {g} : gor[q].pc \in {"write", "read"}

\* What a map write may leave: the written map, or, racing, also a map that
\* lost the write.
WriteOutcomes(g, written) == IF Racing(g) THEN {written, Mappings} ELSE {written}

\* The body of SetUserMapping and the deferred Unlock.
SetBody(g) ==
    /\ gor[g].pc = "write" /\ gor[g].op = "set"
    /\ \E m \in WriteOutcomes(g, SetUserMapping(Mappings, gor[g].ip, gor[g].user,
                                                gor[g].groups)) :
          Commit(m, [gor EXCEPT ![g].pc = "ret"], NoExchange, heap)
    /\ lastWrite' = [lastWrite EXCEPT ![gor[g].ip] =
                        [kind |-> "set", user |-> gor[g].user,
                         groups |-> Deref(heap, gor[g].groups), by |-> "set"]]
    /\ mutex' = [mutex EXCEPT !.writer = 0]
    /\ UNCHANGED <<life, loc, sync, proxyConfig, restConfig>>

\* The body of RemoveUserMapping and the deferred Unlock.
RemoveBody(g) ==
    /\ gor[g].pc = "write" /\ gor[g].op = "remove"
    /\ \E m \in WriteOutcomes(g, RemoveUserMapping(Mappings, gor[g].ip)) :
          Commit(m, [gor EXCEPT ![g].pc = "ret"], NoExchange, heap)
    /\ lastWrite' = [lastWrite EXCEPT ![gor[g].ip] = NoWrite]
    /\ mutex' = [mutex EXCEPT !.writer = 0]
    /\ UNCHANGED <<life, loc, sync, proxyConfig, restConfig>>

\* The body of GetUserMapping and the deferred RUnlock: the caller has the
\* result.
GetBody(g) ==
    LET res == GetUserMapping(Mappings, gor[g].ip)
    IN /\ gor[g].pc = "read" /\ gor[g].op = "get"
       /\ Commit(Mappings, [gor EXCEPT ![g] = IdleGoroutine],
                 [NoExchange EXCEPT
                     !.kind = "GetUserMapping", !.ip = gor[g].ip, !.user = res.user,
                     !.groups = res.groups, !.found = res.exists],
                 heap)
       /\ mutex' = [mutex EXCEPT !.readers = @ \ {g}]
       /\ UNCHANGED <<life, loc, sync, proxyConfig, restConfig, lastWrite>>

\* The body of GetAllMappings and the deferred RUnlock: the caller has the
\* returned map.
AllBody(g) ==
    /\ gor[g].pc = "read" /\ gor[g].op = "all"
    /\ Commit(Mappings, [gor EXCEPT ![g] = IdleGoroutine],
              [NoExchange EXCEPT
                  !.kind = "GetAllMappings", !.data = GetAllMappings(Mappings)],
              heap)
    /\ mutex' = [mutex EXCEPT !.readers = @ \ {g}]
    /\ UNCHANGED <<life, loc, sync, proxyConfig, restConfig, lastWrite>>

\* The caller of a write is done with it.
Return(g) ==
    /\ gor[g].pc = "ret"
    /\ Commit(Mappings,
              [q \in Goroutines |->
                  IF q = g THEN IdleGoroutine ELSE [gor[q] EXCEPT !.conc = @ \ {g}]],
              NoExchange, heap)
    /\ UNCHANGED <<life, loc, sync, proxyConfig, restConfig, mutex, lastWrite>>

NextStore ==
    \E g \in Goroutines :
        \/ \E ip \in IPs, id \in StoreIdentities : CallSet(g, ip, id)
        \/ \E ip \in IPs : CallRemove(g, ip)
        \/ \E ip \in IPs : CallGet(g, ip)
        \/ CallAll(g)
        \/ Lock(g)
        \/ RLock(g)
        \/ SetBody(g)
        \/ RemoveBody(g)
        \/ GetBody(g)
        \/ AllBody(g)
        \/ Return(g)

InitStoreOnly ==
    /\ proxyConfig = getProxyConfig(Env(<<>>, "", <<>>))
    /\ restConfig = Creds("sa-token", "", "", "", "")
    /\ InitStore
    /\ InitIdle

SpecStore == InitStoreOnly /\ [][NextStore]_vars

\* What the writes so far left: ip -> (user, groups) for every ip whose last
\* write is a set.
WrittenView ==
    [ip \in {k \in IPs : lastWrite[k].kind = "set"} |->
        [user |-> lastWrite[ip].user, groups |-> lastWrite[ip].groups]]

\* A returned map with every slice read through.
MapView(m) ==
    [ip \in DOMAIN m |-> [user |-> m[ip].User, groups |-> Deref(heap, m[ip].Groups)]]

\* C6: GetUserMapping(k) returns what the most recent write to k left, (user,
\* groups, true) after a set and not found after a remove or no write at all,
\* whatever was written to the other keys.
C6_GetReflectsLastWrite ==
    last.kind = "GetUserMapping" =>
        IF lastWrite[last.ip].kind = "set"
        THEN /\ last.found
             /\ last.user = lastWrite[last.ip].user
             /\ Deref(heap, last.groups) = lastWrite[last.ip].groups
        ELSE /\ ~last.found
             /\ last.user = ""
             /\ last.groups = NilSlice

\* A get that found alice with her groups under its key while the other key
\* holds bob, written after alice.
C6_Witness ==
    /\ last.kind = "GetUserMapping" /\ last.found
    /\ last.user = "alice"
    /\ Len(Deref(heap, last.groups)) = MaxGroups
    /\ \E k \in IPs \ {last.ip} : lastWrite[k].kind = "set" /\ lastWrite[k].user = "bob"

\* C7: GetAllMappings returns exactly one entry for each IP whose most recent
\* write is a set, holding that set's user and groups, and nothing else; so as
\* many entries as there are such IPs.
C7_AllIsLastWrites ==
    last.kind = "GetAllMappings" =>
        /\ MapView(last.data) = WrittenView
        /\ Cardinality(DOMAIN last.data) =
               Cardinality({k \in IPs : lastWrite[k].kind = "set"})

\* All IPs were set and GetAllMappings returned one entry for each, with both
\* identities among them.
C7_Witness ==
    /\ last.kind = "GetAllMappings"
    /\ Cardinality(DOMAIN last.data) = Cardinality(IPs)
    /\ {last.data[k].User : k \in DOMAIN last.data} = Users

\* Writers g and q called SetUserMapping on distinct IPs, q was waiting in
\* Lock() when g was granted the lock, and both have returned.
ConcurrentSets(g, q) ==
    /\ g # q
    /\ gor[g].pc = "ret" /\ gor[g].op = "set"
    /\ gor[q].pc = "ret" /\ gor[q].op = "set"
    /\ gor[g].ip # gor[q].ip
    /\ q \in gor[g].conc

\* The store holds, under g's IP, the user and groups g set.
HoldsSetOf(g) ==
    /\ gor[g].ip \in DOMAIN Mappings
    /\ Mappings[gor[g].ip].User = gor[g].user
    /\ Deref(heap, Mappings[gor[g].ip].Groups) = Deref(heap, gor[g].groups)

\* No write to g's key since g's own.
LastWriteIsOf(g) ==
    /\ lastWrite[gor[g].ip].kind = "set"
    /\ lastWrite[gor[g].ip].user = gor[g].user
    /\ lastWrite[gor[g].ip].groups = Deref(heap, gor[g].groups)

\* C8: when writers have set distinct IPs concurrently and returned, the store
\* holds every one of those IPs with the value its writer set.
C8_ConcurrentSetsKept ==
    \A g, q \in Goroutines :
        (ConcurrentSets(g, q) /\ LastWriteIsOf(g) /\ LastWriteIsOf(q)) =>
            (HoldsSetOf(g) /\ HoldsSetOf(q))

\* Two writers that overlapped, back from setting alice and bob on distinct
\* IPs, and both entries in the store.
C8_Witness ==
    \E g, q \in Goroutines :
        /\ ConcurrentSets(g, q)
        /\ gor[g].user # gor[q].user
        /\ HoldsSetOf(g) /\ HoldsSetOf(q)
        /\ Cardinality(DOMAIN Mappings) >= 2

(***************************************************************************)
(* SpecClient: SpecStore, and a caller of GetAllMappings that writes to    *)
(* the map it was returned.                                                *)
(***************************************************************************)
\* The caller holds a returned map.
HoldsReturnedMap == last.kind \in {"GetAllMappings", "mutated"}

\* m[ip] = UserMapping{...}: adds or replaces an entry of the returned map.
ClientPutsEntry(ip) ==
    /\ HoldsReturnedMap
    /\ Commit(Mappings, gor,
              [last EXCEPT
                  !.kind = "mutated",
                  !.data = SetUserMapping(@, ip, "mallory", NilSlice)],
              heap)
    /\ UNCHANGED <<life, loc, sync, proxyConfig, restConfig, mutex, lastWrite>>

\* delete(m, ip): deletes an entry of the returned map.
ClientDeletesEntry(ip) ==
    /\ HoldsReturnedMap
    /\ ip \in DOMAIN last.data
    /\ Commit(Mappings, gor,
              [last EXCEPT !.kind = "mutated", !.data = RemoveUserMapping(@, ip)],
              heap)
    /\ UNCHANGED <<life, loc, sync, proxyConfig, restConfig, mutex, lastWrite>>

\* m[ip].Groups[i-1] = "system:masters": writes an element of a returned
\* entry's groups.
ClientSetsGroup(ip, i) ==
    /\ HoldsReturnedMap
    /\ ip \in DOMAIN last.data
    /\ i \in 1..Len(Deref(heap, last.data[ip].Groups))
    /\ Commit(Mappings, gor, [last EXCEPT !.kind = "mutated"],
              [heap EXCEPT ![last.data[ip].Groups][i] = "system:masters"])
    /\ UNCHANGED <<life, loc, sync, proxyConfig, restConfig, mutex, lastWrite>>

NextClient ==
    \/ NextStore
    \/ \E ip \in IPs : ClientPutsEntry(ip)
    \/ \E ip \in IPs : ClientDeletesEntry(ip)
    \/ \E ip \in IPs, i \in 1..MaxGroups : ClientSetsGroup(ip, i)

SpecClient == InitStoreOnly /\ [][NextClient]_vars

\* C9: a write to the map GetAllMappings returned, of any kind, leaves what
\* the store holds, and so what a later GetUserMapping or GetAllMappings
\* returns, as it was.
C9_ReturnedMapIndependent ==
    [][last'.kind = "mutated" => StoreView' = StoreView]_vars

(***************************************************************************)
(* The Interface Locator: getWireGuardInterfaceIP.  Durations are in       *)
(* seconds.                                                                *)
(***************************************************************************)
DefaultInterfaceName == "netmaker"
DefaultMaxAttempts == 20
DefaultBaseDelaySeconds == 3
DefaultMaxDelaySeconds == 30

\* strconv.Atoi: an optional sign and at least one decimal digit.
Atoi(chars) ==
    LET signed == chars # <<>> /\ Head(chars) \in {"+", "-"}
        digits == IF signed THEN Tail(chars) ELSE chars
    IN IF digits = <<>> \/ \E i \in 1..Len(digits) : ~IsDigit(digits[i])
       THEN [err |-> TRUE, value |-> 0]
       ELSE [err |-> FALSE,
             value |-> IF signed /\ Head(chars) = "-"
                       THEN 0 - ParseDigits(digits, 0)
                       ELSE ParseDigits(digits, 0)]

getEnvInt_ZeroWhenUnset(value, defaultValue) ==
    IF value # <<>> /\ ~Atoi(value).err THEN Atoi(value).value ELSE 0

\* getEnvInt, on the value of the variable (empty when unset).
getEnvInt(value, defaultValue) ==
    IF value # <<>> /\ ~Atoi(value).err THEN Atoi(value).value ELSE defaultValue

\* net.IP: 4 bytes, or 16 bytes; an IPv4 address in 16 bytes has the prefix
\* 0:0:0:0:0:ffff.
V4InV6Prefix == <<0, 0, 0, 0, 0, 0, 0, 0, 0, 0, 255, 255>>

IPv4(a, b, c, d) == V4InV6Prefix \o <<a, b, c, d>>

\* ip.To4(): the 4-byte form, or nil (<<>>).
To4(ip) ==
    IF Len(ip) = 4 THEN ip
    ELSE IF Len(ip) = 16 /\ SubSeq(ip, 1, 12) = V4InV6Prefix THEN SubSeq(ip, 13, 16)
    ELSE <<>>

IPv6loopback == <<0, 0, 0, 0, 0, 0, 0, 0, 0, 0, 0, 0, 0, 0, 0, 1>>

IPv6unspecified == <<0, 0, 0, 0, 0, 0, 0, 0, 0, 0, 0, 0, 0, 0, 0, 0>>

IsLoopback(ip) == IF To4(ip) # <<>> THEN To4(ip)[1] = 127 ELSE ip = IPv6loopback

IsUnspecified(ip) == ip = IPv4(0, 0, 0, 0) \/ ip = <<0, 0, 0, 0>> \/ ip = IPv6unspecified

\* ip.String() of an address that has a 4-byte form.
IPString(ip) ==
    LET p == To4(ip)
    IN ToString(p[1]) \o "." \o ToString(p[2]) \o "." \o ToString(p[3]) \o "."
           \o ToString(p[4])

\* An address as netIface.Addrs() returns it on Linux: a *net.IPNet.
IPNetAddr(ip) == [type |-> "*net.IPNet", ip |-> ip]

Qualifies_IgnoresLoopback(addr) ==
    /\ addr.type = "*net.IPNet"
    /\ To4(addr.ip) # <<>>
    /\ ~IsUnspecified(addr.ip)

\* The address is a *net.IPNet whose IP is IPv4, not loopback, not unspecified.
Qualifies(addr) ==
    /\ addr.type = "*net.IPNet"
    /\ To4(addr.ip) # <<>>
    /\ ~IsLoopback(addr.ip)
    /\ ~IsUnspecified(addr.ip)

\* for _, addr := range addrs: the first qualifying address as a string, or "".
RECURSIVE ScanAddrs(_, _)
ScanAddrs(addrs, i) ==
    IF i > Len(addrs) THEN ""
    ELSE IF Qualifies(addrs[i]) THEN IPString(addrs[i].ip)
    ELSE ScanAddrs(addrs, i + 1)

\* for _, netIface := range netInterfaces: the address returned, or "".
RECURSIVE ScanInterfaces(_, _, _)
ScanInterfaces(ifaces, interfaceName, i) ==
    IF i > Len(ifaces) THEN ""
    ELSE IF ifaces[i].Name = interfaceName /\ ~ifaces[i].addrsErr
              /\ ScanAddrs(ifaces[i].addrs, 1) # ""
         THEN ScanAddrs(ifaces[i].addrs, 1)
    ELSE ScanInterfaces(ifaces, interfaceName, i + 1)

\* What the host reports to net.Interfaces() and netIface.Addrs().
Iface(name, addrsErr, addrs) == [Name |-> name, addrsErr |-> addrsErr, addrs |-> addrs]

LoopbackIface == Iface("lo", FALSE, <<IPNetAddr(IPv4(127, 0, 0, 1)), IPNetAddr(IPv6loopback)>>)

EthIface == Iface("eth0", FALSE, <<IPNetAddr(IPv4(192, 168, 1, 2))>>)

LinkLocalV6 == <<254, 128, 0, 0, 0, 0, 0, 0, 0, 0, 0, 0, 0, 0, 0, 1>>

\* The results of one enumeration of the host's interfaces: an error; no
\* interface of either configured name; interfaces whose addresses cannot be
\* read; interfaces without an address that qualifies; interfaces with
\* qualifying addresses behind others that do not qualify, next to an
\* interface whose name only starts with the default name.
Enumerations ==
    {[err |-> TRUE, ifaces |-> <<>>],
     [err |-> FALSE, ifaces |-> <<LoopbackIface, EthIface>>],
     [err |-> FALSE,
      ifaces |-> <<EthIface,
                   Iface("netmaker", TRUE, <<>>),
                   Iface("wg-k8s", TRUE, <<>>)>>],
     [err |-> FALSE,
      ifaces |-> <<LoopbackIface,
                   Iface("netmaker", FALSE,
                         <<IPNetAddr(LinkLocalV6), IPNetAddr(IPv4(127, 0, 0, 1)),
                           IPNetAddr(IPv4(0, 0, 0, 0))>>),
                   Iface("wg-k8s", FALSE, <<IPNetAddr(IPv6unspecified)>>),
                   EthIface>>],
     [err |-> FALSE,
      ifaces |-> <<EthIface,
                   Iface("netmaker0", FALSE, <<IPNetAddr(IPv4(10, 1, 1, 1))>>),
                   Iface("netmaker", FALSE,
                         <<IPNetAddr(LinkLocalV6), IPNetAddr(IPv4(127, 0, 0, 1)),
                           IPNetAddr(IPv4(100, 64, 0, 9)),
                           IPNetAddr(IPv4(100, 64, 0, 10))>>),
                   Iface("wg-k8s", FALSE,
                         <<IPNetAddr(<<0, 0, 0, 0>>), IPNetAddr(<<10, 8, 0, 2>>)>>)>>]}

\* IFACE_NAME and the WIREGUARD_RETRY_* variables; empty when unset.
LocatorEnv(name, maxAttempts, baseDelay, maxDelay) ==
    [IFACE_NAME |-> name, WIREGUARD_RETRY_MAX_ATTEMPTS |-> maxAttempts,
     WIREGUARD_RETRY_BASE_DELAY_SECONDS |-> baseDelay,
     WIREGUARD_RETRY_MAX_DELAY_SECONDS |-> maxDelay]

LocatorEnvs ==
    {LocatorEnv("", <<>>, <<>>, <<>>),
     LocatorEnv("wg-k8s", <<"3">>, <<"1">>, <<"2">>),
     LocatorEnv("", <<"4">>, <<"2", "s">>, <<"+", "5">>),
     LocatorEnv("", <<"1">>, <<"5">>, <<"1">>),
     LocatorEnv("wg-k8s", <<"0">>, <<"1">>, <<"1">>),
     LocatorEnv("", <<"-", "1">>, <<"-", "2">>, <<"-", "3">>)}

LoopHead_StopsEarly(l) ==
    IF l.attempt < l.maxRetries THEN [l EXCEPT !.pc = "attempt"]
    ELSE [l EXCEPT !.pc = "done", !.result = ""]

\* attempt <= maxRetries: another attempt, or the loop is left and "" returned.
LoopHead(l) ==
    IF l.attempt <= l.maxRetries THEN [l EXCEPT !.pc = "attempt"]
    ELSE [l EXCEPT !.pc = "done", !.result = ""]

\* getWireGuardInterfaceIP up to its loop: the configuration read, attempt := 1.
NewLocator(env) ==
    LoopHead([pc |-> "start", env |-> env,
              interfaceName |-> IF env.IFACE_NAME # "" THEN env.IFACE_NAME
                                ELSE DefaultInterfaceName,
              maxRetries |-> getEnvInt(env.WIREGUARD_RETRY_MAX_ATTEMPTS,
                                       DefaultMaxAttempts),
              baseDelay |-> getEnvInt(env.WIREGUARD_RETRY_BASE_DELAY_SECONDS,
                                      DefaultBaseDelaySeconds),
              maxDelay |-> getEnvInt(env.WIREGUARD_RETRY_MAX_DELAY_SECONDS,
                                     DefaultMaxDelaySeconds),
              attempt |-> 1, made |-> 0, misses |-> 0, delay |-> 0, waited |-> 0,
              slept |-> 0, outcome |-> [err |-> FALSE, ifaces |-> <<>>],
              result |-> ""])

\* delay := baseDelay * attempt; if delay > maxDelay { delay = maxDelay }
Delay(l) ==
    IF l.baseDelay * l.attempt > l.maxDelay THEN l.maxDelay
    ELSE l.baseDelay * l.attempt

\* time.Sleep(d) returns at once when d is not positive.
SleepTime(d) == IF d > 0 THEN d ELSE 0

LocatorUnchanged ==
    UNCHANGED <<life, sync, proxyConfig, restConfig, Mappings, heap, mutex, gor, last,
                lastWrite>>

\* One pass of the loop body of the call c up to the wait, the host answering
\* with enum.
AttemptStep(c, enum) ==
    LET ip == ScanInterfaces(enum.ifaces, c.interfaceName, 1)
        l == [c EXCEPT !.made = @ + 1, !.outcome = enum,
                       !.misses = IF enum.err \/ ip = "" THEN @ + 1 ELSE @]
    IN IF enum.err THEN LoopHead([l EXCEPT !.attempt = @ + 1])
       ELSE IF ip # "" THEN [l EXCEPT !.pc = "done", !.result = ip]
       ELSE IF l.attempt < l.maxRetries
       THEN [l EXCEPT !.pc = "sleep", !.delay = Delay(l)]
       ELSE LoopHead([l EXCEPT !.attempt = @ + 1])

\* time.Sleep(delay), then attempt++, in the call c.
SleepStep(c) ==
    LoopHead([c EXCEPT !.waited = @ + SleepTime(c.delay),
                       !.slept = @ + 1, !.attempt = @ + 1])

Attempt(enum) ==
    /\ loc.pc = "attempt"
    /\ loc' = AttemptStep(loc, enum)
    /\ LocatorUnchanged

Sleep ==
    /\ loc.pc = "sleep"
    /\ loc' = SleepStep(loc)
    /\ LocatorUnchanged

NextLocator ==
    \/ \E enum \in Enumerations : Attempt(enum)
    \/ Sleep

InitLocator ==
    /\ proxyConfig = getProxyConfig(Env(<<>>, "", <<>>))
    /\ restConfig = Creds("sa-token", "", "", "", "")
    /\ InitStore
    /\ sync = IdleSync
    /\ life = IdleLife
    /\ \E env \in LocatorEnvs : loc = NewLocator(env)

SpecLocator == InitLocator /\ [][NextLocator]_vars

Min(a, b) == IF a <= b THEN a ELSE b

\* The attempts are over and the result returned.
Located == loc.pc = "done"

\* C11: the locator stops at the first attempt that finds an address: having
\* returned an address it made j attempts, 1 <= j <= maxRetries, of which the
\* first j - 1 found none and the j-th found the address returned; having
\* returned "" it made exactly maxRetries attempts, none of which found one.
\* (maxRetries is a count: not negative.)
C11_StopsAtFirstSuccess ==
    loc.maxRetries >= 0 =>
        /\ ~Located => (loc.made = loc.misses /\ loc.result = "")
        /\ (Located /\ loc.result # "") =>
              /\ loc.made = loc.misses + 1
              /\ loc.made = loc.attempt
              /\ 1 <= loc.made /\ loc.made <= loc.maxRetries
              /\ ~loc.outcome.err
              /\ ScanInterfaces(loc.outcome.ifaces, loc.interfaceName, 1) = loc.result
        /\ (Located /\ loc.result = "") =>
              /\ loc.made = loc.maxRetries
              /\ loc.misses = loc.maxRetries

\* The interface had no address at attempts 1 and 2 and has one at attempt 3:
\* the address is returned after exactly 3 attempts.
C11_Witness ==
    /\ Located /\ loc.result = "100.64.0.9"
    /\ loc.made = 3 /\ loc.misses = 2
    /\ loc.maxRetries > 3

\* The sum over k = 1..n of min(baseDelay * k, maxDelay).
RECURSIVE ScheduleSum(_, _, _)
ScheduleSum(baseDelay, maxDelay, n) ==
    IF n <= 0 THEN 0
    ELSE ScheduleSum(baseDelay, maxDelay, n - 1) + Min(baseDelay * n, maxDelay)

\* C12: every attempt k < maxRetries that yields no address, whether the
\* interface is missing, has no qualifying address or the enumeration fails,
\* is followed by a wait of min(baseDelay * k, maxDelay) before attempt k + 1;
\* there is no wait before attempt 1 nor after attempt maxRetries, so that ""
\* is returned after a total wait of the sum of min(baseDelay * k, maxDelay)
\* over k = 1..maxRetries - 1.
C12_WaitSchedule ==
    [][(loc.baseDelay >= 0 /\ loc.maxDelay >= 0) =>
          /\ (loc.pc = "attempt" /\ loc'.made = loc.made + 1 /\ loc'.result = ""
                /\ loc.attempt < loc.maxRetries) =>
                 /\ loc'.pc = "sleep"
                 /\ loc'.delay = Min(loc.baseDelay * loc.attempt, loc.maxDelay)
          /\ loc'.pc = "sleep" => loc.attempt < loc.maxRetries
          /\ (loc.pc = "sleep" /\ loc'.pc # "sleep") =>
                 loc'.waited = loc.waited + loc.delay
          /\ (loc'.pc = "done" /\ loc'.result = "") =>
                 loc'.waited = ScheduleSum(loc.baseDelay, loc.maxDelay,
                                           loc.maxRetries - 1)]_vars

\* The address is IPv4 (it has a 4-byte form), not 127.x.x.x and not 0.0.0.0.
IsRoutableIPv4(ip) ==
    /\ To4(ip) # <<>>
    /\ To4(ip)[1] # 127
    /\ To4(ip) # <<0, 0, 0, 0>>

\* text is what the interface named name reports first, in the order of
\* enumeration, among its addresses that are IPv4, not loopback and not
\* unspecified.
IsFirstRoutableOf(text, name, ifaces) ==
    \E i \in 1..Len(ifaces) :
        /\ ifaces[i].Name = name
        /\ \E j \in 1..Len(ifaces[i].addrs) :
              /\ IsRoutableIPv4(ifaces[i].addrs[j].ip)
              /\ \A k \in 1..(j - 1) : ~IsRoutableIPv4(ifaces[i].addrs[k].ip)
              /\ text = IPString(ifaces[i].addrs[j].ip)

\* The addresses, as text, of the interfaces of another name, and those that
\* are IPv6, loopback or unspecified.
ExcludedAddresses(name, ifaces) ==
    UNION {{IPString(ifaces[i].addrs[j].ip) :
               j \in {n \in 1..Len(ifaces[i].addrs) : To4(ifaces[i].addrs[n].ip) # <<>>}} :
           i \in {n \in 1..Len(ifaces) : ifaces[n].Name # name}}
    \cup {"127.0.0.1", "0.0.0.0"}

\* C13: a non-empty result is the first address, in enumeration order, of the
\* interface whose name is exactly interfaceName among its addresses that are
\* IPv4, not loopback and not unspecified; never an address of an interface
\* of another name, nor a loopback or unspecified address.
C13_ResultIsFirstRoutable ==
    (Located /\ loc.result # "") =>
        /\ IsFirstRoutableOf(loc.result, loc.interfaceName, loc.outcome.ifaces)
        /\ loc.result \notin ExcludedAddresses(loc.interfaceName, loc.outcome.ifaces)

\* The default interface reports an IPv6 and a loopback address before
\* 100.64.0.9, next to netmaker0 with 10.1.1.1: 100.64.0.9 is returned.
C13_Witness ==
    /\ Located /\ loc.result = "100.64.0.9"
    /\ loc.interfaceName = DefaultInterfaceName
    /\ "10.1.1.1" \in ExcludedAddresses(loc.interfaceName, loc.outcome.ifaces)

\* None of the WIREGUARD_RETRY_* variables is set.
RetryEnvUnset ==
    /\ loc.env.WIREGUARD_RETRY_MAX_ATTEMPTS = <<>>
    /\ loc.env.WIREGUARD_RETRY_BASE_DELAY_SECONDS = <<>>
    /\ loc.env.WIREGUARD_RETRY_MAX_DELAY_SECONDS = <<>>

DefaultSyncIntervalSeconds == 30

\* The ticks the model lets the ticker deliver.
MaxTicks == 2

APIEnv(domain, token, interval) ==
    [EXTERNAL_API_SERVER_DOMAIN |-> domain, EXTERNAL_API_TOKEN |-> token,
     EXTERNAL_API_SYNC_INTERVAL |-> interval]

\* getNMAPIConfig, on the environment env.
getNMAPIConfig(env) ==
    LET syncIntervalStr == env.EXTERNAL_API_SYNC_INTERVAL
        secs == ParseInt(syncIntervalStr)
    IN [ServerDomain |-> env.EXTERNAL_API_SERVER_DOMAIN,
        APIToken |-> env.EXTERNAL_API_TOKEN,
        SyncInterval |-> IF /\ syncIntervalStr # <<>> /\ ~secs.err
                            /\ ~secs.neg /\ secs.abs # <<>>
                         THEN Seconds(secs.abs)
                         ELSE Seconds(NumeralOf(DefaultSyncIntervalSeconds))]

\* Nothing set; only the domain; only the token; both, with the interval unset,
\* 5, 0 and 5m; and a domain that is no host name.
APIEnvs ==
    {APIEnv("", "", <<>>),
     APIEnv("api.example.com", "", <<"5">>),
     APIEnv("", "token", <<>>),
     APIEnv("api.example.com", "token", <<>>),
     APIEnv("api.example.com", "token", <<"5">>),
     APIEnv("api.example.com", "token", <<"0">>),
     APIEnv("api.example.com", "token", <<"5", "m">>),
     APIEnv("api example", "token", <<>>)}

APIConfigs == {getNMAPIConfig(env) : env \in APIEnvs}

Configured_TokenOnly(config) == config.APIToken # ""

Configured_DomainOnly(config) == config.ServerDomain # ""

\* The negation of config.ServerDomain == "" || config.APIToken == "".
Configured(config) == config.ServerDomain # "" /\ config.APIToken # ""

\* http.NewRequest fails on a URL that does not parse: a space in the host.
NewRequestFails(config) == config.ServerDomain = "api example"

Entry(user, groups) == [User |-> user, Groups |-> groups]

\* The mappings a response body may decode to.
Payloads ==
    {NoMappings,
     ("10.0.0.1" :> Entry("alice", <<"g1">>)),
     ("10.0.0.2" :> Entry("bob", SubSeq(GroupNames, 1, MaxGroups))),
     ("10.0.0.1" :> Entry("bob", <<>>)) @@ ("10.0.0.2" :> Entry("alice", <<"g1">>))}

Response(err, code, decodes, mappings) ==
    [err |-> err, StatusCode |-> code, decodes |-> decodes, Mappings |-> mappings]

\* What client.Do may return: an error; 200 with a body that decodes; 200 with
\* a body that does not decode, nothing or one entry filled in before the
\* error; another status, with a body that is or is not a document of
\* mappings.
Responses ==
    {Response(TRUE, 0, FALSE, NoMappings)}
    \cup {Response(FALSE, StatusOK, TRUE, P) : P \in Payloads}
    \cup {Response(FALSE, StatusOK, FALSE, NoMappings),
          Response(FALSE, StatusOK, FALSE, ("10.0.0.2" :> Entry("alice", <<"g1">>))),
          Response(FALSE, StatusInternalServerError, FALSE, NoMappings),
          Response(FALSE, StatusUnauthorized, TRUE,
                   ("10.0.0.1" :> Entry("bob", <<"g1">>)))}

\* The store as the sync writes it: the map, the backing arrays, the history.
StoreState == [m |-> Mappings, h |-> heap, lw |-> lastWrite]

\* for ip, mapping := range apiResponse.Mappings { SetUserIPMapping(...) },
\* from the i-th name on.  Go ranges over the map in no fixed order; the keys
\* are distinct, so every order leaves the same store.
RECURSIVE SyncEntries(_, _, _)
SyncEntries(st, P, i) ==
    IF i > Len(IPNames) THEN st
    ELSE LET ip == IPNames[i]
             ref == NewSliceRef(st.h, P[ip].Groups)
         IN IF ip \notin DOMAIN P THEN SyncEntries(st, P, i + 1)
            ELSE SyncEntries(
                     [m |-> SetUserMapping(st.m, ip, P[ip].User, ref),
                      h |-> NewSliceHeap(st.h, ref, P[ip].Groups),
                      lw |-> [st.lw EXCEPT ![ip] =
                                 [kind |-> "set", user |-> P[ip].User,
                                  groups |-> P[ip].Groups, by |-> "sync"]]],
                     P, i + 1)

UpdateFromResponse_Replaces(st, P) ==
    SyncEntries([st EXCEPT !.m = NewUserIPMap, !.lw = [ip \in IPs |-> NoWrite]], P, 1)

UpdateFromResponse_RespectsLocal(st, P) ==
    SyncEntries(st, [ip \in {k \in DOMAIN P : st.lw[k].by # "post"} |-> P[ip]], 1)

UpdateFromResponse_KeepsExisting(st, P) ==
    SyncEntries(st, [ip \in DOMAIN P \ DOMAIN st.m |-> P[ip]], 1)

UpdateFromResponse_Toggles(st, P) ==
    SyncEntries([st EXCEPT !.m = [ip \in DOMAIN st.m \ DOMAIN P |-> st.m[ip]]],
                [ip \in DOMAIN P \ DOMAIN st.m |-> P[ip]], 1)

\* The update of the global map from the decoded response.
UpdateFromResponse(st, P) == SyncEntries(st, P, 1)

StatusIsOK_Any(code) == TRUE

\* The negation of resp.StatusCode != http.StatusOK.
StatusIsOK(code) == code = StatusOK

\* fetchUserMappingsFromAPI(config, zlog) on the store st, the external API
\* answering resp: the error returned, whether a request was sent, the store.
fetchUserMappingsFromAPI(config, st, resp) ==
    CASE ~Configured(config) -> [err |-> FALSE, requested |-> FALSE, st |-> st]
      [] Configured(config) /\ NewRequestFails(config) ->
             [err |-> TRUE, requested |-> FALSE, st |-> st]
      [] OTHER ->
             IF resp.err \/ ~StatusIsOK(resp.StatusCode) \/ ~resp.decodes
             THEN [err |-> TRUE, requested |-> TRUE, st |-> st]
             ELSE [err |-> FALSE, requested |-> TRUE,
                   st |-> UpdateFromResponse(st, resp.Mappings)]

\* The call that returned r succeeded, and the exchange before it was a
\* management POST or DELETE, answered 200, for an ip of its payload.
FollowsWrite(r, resp) ==
    /\ r.requested /\ ~r.err
    /\ last.kind \in {"post", "delete"} /\ last.status = StatusOK
    /\ last.ip \in DOMAIN resp.Mappings

\* The call of fetchUserMappingsFromAPI by via that returned r, as exchange.
FetchExchange(via, r, resp, status) ==
    [NoExchange EXCEPT
        !.kind = "fetch", !.via = via, !.requested = r.requested,
        !.response = IF r.requested THEN resp ELSE NoResponse,
        !.err = r.err, !.status = status,
        !.again = /\ r.requested /\ ~r.err
                  /\ last.kind = "fetch" /\ last.requested /\ ~last.err
                  /\ last.response = resp,
        !.undid = IF FollowsWrite(r, resp) THEN last.kind ELSE "",
        !.ip = IF FollowsWrite(r, resp) THEN last.ip ELSE ""]

\* The answers that matter to a call with config: without a request, none.
ResponsesFor(config) ==
    IF Configured(config) /\ ~NewRequestFails(config) THEN Responses ELSE {NoResponse}

SyncUnchanged == UNCHANGED <<life, loc, proxyConfig, restConfig, mutex>>

\* The store and the exchange after the call that returned r.
Fetched(r, l) ==
    /\ Commit(r.st.m, gor, l, r.st.h)
    /\ lastWrite' = r.st.lw

\* go startExternalAPISync(ctx, externalAPIConfig, zlog), up to the initial
\* fetch: return when not configured, else time.NewTicker(config.SyncInterval),
\* which panics on a period that is not positive; the panic of a goroutine
\* ends the process.
StartExternalAPISync ==
    /\ sync.pc = "idle"
    /\ sync' = IF ~Configured(sync.config)
               THEN [sync EXCEPT !.pc = "returned"]
               ELSE IF ~Positive(sync.config.SyncInterval)
               THEN [sync EXCEPT !.pc = "panicked"]
               ELSE [sync EXCEPT !.pc = "initial", !.ticker = sync.config.SyncInterval]
    /\ Commit(Mappings, gor, [NoExchange EXCEPT !.kind = "start"], heap)
    /\ UNCHANGED lastWrite
    /\ SyncUnchanged

LoopAfterFetch_StopsOnError(s, err) ==
    [s EXCEPT !.pc = IF err THEN "returned" ELSE "select", !.fetches = @ + 1,
              !.failures = IF err THEN @ + 1 ELSE @]

\* The loop after a fetch: the error is logged, and the loop is at its select.
LoopAfterFetch(s, err) ==
    [s EXCEPT !.pc = "select", !.fetches = @ + 1,
              !.failures = IF err THEN @ + 1 ELSE @]

\* The initial fetch.
InitialFetch(resp) ==
    LET r == fetchUserMappingsFromAPI(sync.config, StoreState, resp)
    IN /\ sync.pc = "initial"
       /\ Fetched(r, FetchExchange("initial", r, resp, 0))
       /\ sync' = LoopAfterFetch(sync, r.err)
       /\ SyncUnchanged

\* case <-ticker.C: the fetch of one tick.
Tick(resp) ==
    LET r == fetchUserMappingsFromAPI(sync.config, StoreState, resp)
    IN /\ sync.pc = "select"
       /\ sync.ticks < MaxTicks
       /\ Fetched(r, FetchExchange("tick", r, resp, 0))
       /\ sync' = LoopAfterFetch([sync EXCEPT !.ticks = @ + 1], r.err)
       /\ SyncUnchanged

\* case <-ctx.Done(): return, and the deferred ticker.Stop().
Cancel ==
    /\ sync.pc = "select"
    /\ sync' = [sync EXCEPT !.pc = "stopped", !.ticker = ZeroDuration]
    /\ Commit(Mappings, gor, [NoExchange EXCEPT !.kind = "cancel"], heap)
    /\ UNCHANGED lastWrite
    /\ SyncUnchanged

\* POST /admin/sync-external-api
SyncExternalAPI(resp) ==
    LET externalAPIConfig == sync.config
        r == fetchUserMappingsFromAPI(externalAPIConfig, StoreState, resp)
    IN /\ IF ~Configured(externalAPIConfig)
          THEN /\ Commit(Mappings, gor,
                         [NoExchange EXCEPT !.kind = "sync", !.status = StatusBadRequest],
                         heap)
               /\ UNCHANGED lastWrite
          ELSE Fetched(r, FetchExchange("manual", r, resp,
                                        IF r.err THEN StatusInternalServerError
                                        ELSE StatusOK))
       /\ UNCHANGED sync
       /\ SyncUnchanged

\* A call of fetchUserMappingsFromAPI with the process's configuration, by a
\* caller that did not look at the configuration first.
FetchOnce(resp) ==
    LET r == fetchUserMappingsFromAPI(sync.config, StoreState, resp)
    IN /\ Fetched(r, FetchExchange("direct", r, resp, 0))
       /\ UNCHANGED sync
       /\ SyncUnchanged

\* The bodies the management API is sent next to the sync.
LocalBodies == {body \in PostBodies : body.user = "bob" /\ body.groups = <<"g1">>}

NextSync ==
    \/ StartExternalAPISync
    \/ \E resp \in ResponsesFor(sync.config) : InitialFetch(resp)
    \/ \E resp \in ResponsesFor(sync.config) : Tick(resp)
    \/ Cancel
    \/ \E resp \in ResponsesFor(sync.config) : SyncExternalAPI(resp)
    \/ \E resp \in ResponsesFor(sync.config) : FetchOnce(resp)
    \/ \E body \in LocalBodies : PostUserMapping(body)
    \/ \E ip \in IPs : DeleteUserMapping(ip)

\* The process after StartK8sProxy read the external API configuration.
InitSync ==
    /\ proxyConfig = getProxyConfig(Env(<<>>, "", <<>>))
    /\ restConfig = Creds("sa-token", "", "", "", "")
    /\ InitStore
    /\ loc = IdleLocator
    /\ life = IdleLife
    /\ \E config \in APIConfigs : sync = [IdleSync EXCEPT !.config = config]

SpecSync == InitSync /\ [][NextSync]_vars

\* The server domain or the API token is empty.
Unconfigured == sync.config.ServerDomain = "" \/ sync.config.APIToken = ""

\* C15: with the server domain or the API token empty, a call of
\* fetchUserMappingsFromAPI returns nil, sends no request and leaves the
\* store as it was, and startExternalAPISync returns at once: it starts no
\* ticker and performs no fetch, then or later.
C15_SyncOptional ==
    [][Unconfigured =>
          /\ last'.kind = "fetch" =>
                 /\ ~last'.err /\ ~last'.requested
                 /\ StoreView' = StoreView
          /\ (sync.pc = "idle" /\ sync'.pc # "idle") =>
                 /\ sync'.pc = "returned" /\ sync'.ticker = ZeroDuration /\ sync'.fetches = 0
                 /\ last'.kind # "fetch"
                 /\ StoreView' = StoreView
          /\ sync.pc = "returned" => sync' = sync]_vars

\* Only the domain is set, the store holds a mapping, startExternalAPISync has
\* returned and a call of fetchUserMappingsFromAPI has returned nil.
C15_Witness ==
    /\ sync.config.ServerDomain # "" /\ sync.config.APIToken = ""
    /\ sync.pc = "returned" /\ sync.ticker = ZeroDuration /\ sync.fetches = 0
    /\ last.kind = "fetch" /\ ~last.err /\ ~last.requested
    /\ DOMAIN StoreView # {}

\* The step is a call of fetchUserMappingsFromAPI that returned an error.
FetchFailed == last'.kind = "fetch" /\ last'.err

\* C16: a call of fetchUserMappingsFromAPI that fails (the request cannot be
\* built or sent, the status is not 200, the body does not decode) returns
\* an error and leaves the store exactly as it was: no entry added, changed
\* or removed.
C16_FailedSyncKeepsStore ==
    [][/\ (/\ last'.kind = "fetch"
           /\ \/ last'.response.err
              \/ last'.requested /\ last'.response.StatusCode # 200
              \/ last'.requested /\ ~last'.response.decodes
              \/ ~Unconfigured /\ ~last'.requested)
          => last'.err
       /\ FetchFailed => (StoreView' = StoreView /\ Mappings' = Mappings)]_vars

\* A fetch answered 401, with a body that would decode to a mapping for
\* 10.0.0.1, has failed, and the store still holds what the management API
\* wrote for 10.0.0.1.
C16_Witness ==
    /\ last.kind = "fetch" /\ last.err /\ last.requested
    /\ last.response.StatusCode = StatusUnauthorized
    /\ "10.0.0.1" \in DOMAIN last.response.Mappings
    /\ "10.0.0.1" \in DOMAIN StoreView
    /\ StoreView["10.0.0.1"] = [user |-> "bob", groups |-> <<"g1">>]
    /\ lastWrite["10.0.0.1"].by = "post"

\* The step is a call of fetchUserMappingsFromAPI that sent its request and
\* returned nil.
FetchSucceeded == last'.kind = "fetch" /\ last'.requested /\ ~last'.err

\* The view of a store with every ip of payload P set to P's (user, groups).
Overlay(view, P) ==
    [ip \in DOMAIN view \cup DOMAIN P |->
        IF ip \in DOMAIN P THEN [user |-> P[ip].User, groups |-> P[ip].Groups]
        ELSE view[ip]]

C18_SyncIdempotent ==
    [][(/\ last.kind = "fetch" /\ last.requested /\ ~last.err
        /\ FetchSucceeded
        /\ last'.response = last.response)
       => (StoreView' = StoreView /\ lastWrite' = lastWrite)]_vars

\* The loop fetched the same two mappings at a tick as in the fetch before.
C18_Witness ==
    /\ last.kind = "fetch" /\ last.again /\ last.via = "tick"
    /\ DOMAIN last.response.Mappings = {"10.0.0.1", "10.0.0.2"}
    /\ StoreView = Overlay(StoreView, last.response.Mappings)

\* The last exchange is a successful fetch of the sync loop.
AutomaticSyncDone ==
    /\ last.kind = "fetch" /\ last.via \in {"initial", "tick"}
    /\ last.requested /\ ~last.err

C20_OneFetchPerTick ==
    [][/\ sync.pc = "initial" => (sync.fetches = 0 /\ sync.ticks = 0)
       /\ (sync.pc = "idle" /\ sync'.pc = "initial") =>
              (sync'.ticker = sync.config.SyncInterval /\ last'.kind # "fetch")
       /\ (sync.pc = "initial" /\ sync' # sync) =>
              /\ last'.kind = "fetch" /\ last'.via = "initial"
              /\ sync'.fetches = 1 /\ sync'.ticks = 0
              /\ sync'.pc = "select"
       /\ (sync.pc = "select" /\ sync'.ticks = sync.ticks + 1) =>
              /\ last'.kind = "fetch" /\ last'.via = "tick"
              /\ sync'.fetches = sync.fetches + 1
              /\ sync'.pc = "select"
       /\ sync'.fetches # sync.fetches =>
              \/ sync.pc = "initial"
              \/ sync.pc = "select" /\ sync'.ticks = sync.ticks + 1
       /\ sync'.pc = "select" =>
              /\ sync'.fetches = 1 + sync'.ticks
              /\ sync'.ticker = sync'.config.SyncInterval
              /\ Positive(sync'.ticker)
       /\ sync'.config = sync.config]_vars

\* The initial fetch or the fetch of the first tick failed, and the fetch of
\* the second tick was made, 5 s after the one before, and succeeded.
C20_Witness ==
    /\ sync.pc = "select" /\ sync.ticks = 2 /\ sync.fetches = 3
    /\ sync.failures >= 1 /\ sync.ticker = Seconds(NumeralOf(5))
    /\ last.kind = "fetch" /\ last.via = "tick" /\ ~last.err
    /\ DOMAIN StoreView # {}

(***************************************************************************)
(* The process: the harness that starts StartK8sProxy and StartAPIServer   *)
(* with one context and one WaitGroup, the two servers from their start to *)
(* their return, and the sync loop StartK8sProxy starts.                   *)
(***************************************************************************)
StartupWaitSeconds == 5
ShutdownTimeoutSeconds == 10

Tasks == {"proxy", "api"}

\* os.Getenv: the value, or "" when the variable is not set.
Getenv(v) == IF v.set THEN v.value ELSE ""

SetTo(value) == [set |-> TRUE, value |-> value]

\* PROXY_BIND_IP and API_BIND_IP: both unset; one set to the empty string and
\* the other to an address, either way round.
BindEnvs ==
    {[PROXY_BIND_IP |-> Unset, API_BIND_IP |-> Unset],
     [PROXY_BIND_IP |-> SetTo(""), API_BIND_IP |-> SetTo("10.9.0.1")],
     [PROXY_BIND_IP |-> SetTo("10.9.0.1"), API_BIND_IP |-> SetTo("")]}

\* The external API is configured where PROXY_BIND_IP is unset or empty.
LifecycleConfig(env) ==
    IF Getenv(env.PROXY_BIND_IP) = ""
    THEN getNMAPIConfig(APIEnv("api.example.com", "token", <<"5">>))
    ELSE getNMAPIConfig(APIEnv("", "", <<>>))

BindVariable(t) == IF t = "proxy" THEN "PROXY_BIND_IP" ELSE "API_BIND_IP"

\* PROXY_PORT and API_PORT are not set.
Port(t) == IF t = "proxy" THEN "8085" ELSE "8086"

\* addr := ":" + port; if bindIP != "" { addr = bindIP + ":" + port }
Addr(bindIP, port) == IF bindIP # "" THEN bindIP \o ":" \o port ELSE ":" \o port

\* The retry variables of the process: two attempts, one second apart.
LifecycleLocatorEnv == LocatorEnv("", <<"2">>, <<"1">>, <<"1">>)

\* A host without the overlay interface, and a host with it.
LifecycleEnumerations ==
    {e \in Enumerations :
        \/ ScanInterfaces(e.ifaces, DefaultInterfaceName, 1) # ""
        \/ ~e.err /\ \A i \in 1..Len(e.ifaces) :
                        e.ifaces[i].Name \notin {"netmaker", "wg-k8s"}}

\* The external API does not answer.
Unreachable == Response(TRUE, 0, FALSE, NoMappings)

\* The process has not ended: no os.Exit(1), and main is still in wg.Wait().
Running == ~life.exited /\ ~life.waited

LifeUnchanged ==
    UNCHANGED <<proxyConfig, restConfig, Mappings, heap, mutex, gor, last, lastWrite,
                loc>>

\* The harness: wg.Add(1) and go StartK8sProxy(ctx, &wg), wg.Add(1) and
\* go StartAPIServer(ctx, &wg).
HarnessStart ==
    /\ Running /\ ~life.started
    /\ life' = [life EXCEPT !.started = TRUE, !.wg = 2,
                            !.proxy.pc = "start", !.api.pc = "start"]
    /\ UNCHANGED sync
    /\ LifeUnchanged

\* The cancellation signal fires.
CancelFires ==
    /\ Running /\ ~life.cancelled
    /\ life' = [life EXCEPT
                   !.cancelled = TRUE,
                   !.cancelAt = [t \in {"proxy", "api"} |->
                                    IF life[t].pc \in {"startupWait", "locating"}
                                    THEN life[t].pc ELSE "other"]]
    /\ UNCHANGED sync
    /\ LifeUnchanged

\* wg.Wait() returns when the counter is zero.
WaitReturns == life.wg = 0

\* The harness: wg.Wait() returns.
HarnessWait ==
    /\ Running /\ life.started
    /\ WaitReturns
    /\ life' = [life EXCEPT !.waited = TRUE]
    /\ UNCHANGED sync
    /\ LifeUnchanged

\* StartK8sProxy up to its startup wait: getProxyConfig, getNMAPIConfig,
\* go startExternalAPISync(ctx, externalAPIConfig, zlog).
ProxyStart ==
    /\ Running /\ life.proxy.pc = "start"
    /\ life' = [life EXCEPT !.proxy.pc = "startupWait"]
    /\ sync' = [sync EXCEPT !.pc = "idle"]
    /\ LifeUnchanged

\* time.Sleep(5 * time.Second) returns.
ProxyWake ==
    /\ Running /\ life.proxy.pc = "startupWait"
    /\ life' = [life EXCEPT !.proxy.pc = "config"]
    /\ UNCHANGED sync
    /\ LifeUnchanged

\* The Kubernetes configuration and the URL of the API server: os.Exit(1)
\* when either fails.
ProxyLoadConfig(ok) ==
    /\ Running /\ life.proxy.pc = "config"
    /\ life' = IF ok THEN [life EXCEPT !.proxy.pc = "bind"]
               ELSE [life EXCEPT !.exited = TRUE]
    /\ UNCHANGED sync
    /\ LifeUnchanged

\* StartAPIServer up to its bind address: the router.
APIStart ==
    /\ Running /\ life.api.pc = "start"
    /\ life' = [life EXCEPT !.api.pc = "bind"]
    /\ UNCHANGED sync
    /\ LifeUnchanged

TaskLocated_Early(task) == [task EXCEPT !.pc = "serve", !.bindIP = task.l.result]

\* bindIP = getWireGuardInterfaceIP(), once the call has returned; nothing
\* else of the call is kept.
TaskLocated(task) ==
    IF task.l.pc = "done"
    THEN [task EXCEPT !.pc = "serve", !.bindIP = task.l.result, !.l = IdleLocator]
    ELSE task

\* bindIP := os.Getenv(...); if bindIP == "" { bindIP = getWireGuardInterfaceIP() },
\* up to the first attempt of the locator.
BindIP(task, value) ==
    IF value # "" THEN [task EXCEPT !.pc = "serve", !.bindIP = value]
    ELSE TaskLocated([task EXCEPT !.pc = "locating", !.consulted = TRUE,
                                  !.l = NewLocator(LifecycleLocatorEnv)])

TaskBind(t) ==
    /\ Running /\ life[t].pc = "bind"
    /\ life' = [life EXCEPT ![t] = BindIP(@, Getenv(life.env[BindVariable(t)]))]
    /\ UNCHANGED sync
    /\ LifeUnchanged

\* An attempt of the task's call of getWireGuardInterfaceIP.
TaskAttempt(t, enum) ==
    /\ Running /\ life[t].pc = "locating" /\ life[t].l.pc = "attempt"
    /\ life' = [life EXCEPT ![t] = TaskLocated([@ EXCEPT !.l = AttemptStep(@, enum)])]
    /\ UNCHANGED sync
    /\ LifeUnchanged

\* A wait of the task's call of getWireGuardInterfaceIP.
TaskSleep(t) ==
    /\ Running /\ life[t].pc = "locating" /\ life[t].l.pc = "sleep"
    /\ life' = [life EXCEPT ![t] = TaskLocated([@ EXCEPT !.l = SleepStep(@)])]
    /\ UNCHANGED sync
    /\ LifeUnchanged

\* srv := &http.Server{Addr: addr, ...}; go func() { srv.ListenAndServe() ... }()
TaskServe(t) ==
    /\ Running /\ life[t].pc = "serve"
    /\ life' = [life EXCEPT ![t] = [@ EXCEPT !.pc = "blocked",
                                             !.addr = Addr(life[t].bindIP, Port(t)),
                                             !.listening = "starting"]]
    /\ UNCHANGED sync
    /\ LifeUnchanged

\* The goroutine of srv.ListenAndServe(): the socket is open; or it cannot be
\* opened, and os.Exit(1); or srv.Shutdown came first, and ErrServerClosed.
TaskListen(t, ok) ==
    /\ Running /\ life[t].listening = "starting"
    /\ life' = IF life[t].pc \in {"shutdown", "returned"}
               THEN [life EXCEPT ![t].listening = "closed"]
               ELSE IF ok THEN [life EXCEPT ![t].listening = "yes"]
               ELSE [life EXCEPT !.exited = TRUE]
    /\ UNCHANGED sync
    /\ LifeUnchanged

ObservesCancel_Never(cancelled) == FALSE

\* <-ctx.Done() returns.
ObservesCancel(cancelled) == cancelled

\* <-ctx.Done(), then context.WithTimeout(context.Background(), 10*time.Second)
\* and the call of srv.Shutdown(shutdownCtx).
TaskObserveCancel(t) ==
    /\ Running /\ life[t].pc = "blocked"
    /\ ObservesCancel(life.cancelled)
    /\ life' = [life EXCEPT ![t].pc = "shutdown"]
    /\ UNCHANGED sync
    /\ LifeUnchanged

\* srv.Shutdown returns, after seconds, and the function returns: the deferred
\* wg.Done().
TaskReturn(t, seconds) ==
    /\ Running /\ life[t].pc = "shutdown"
    /\ life' = [life EXCEPT ![t] = [@ EXCEPT !.pc = "returned", !.done = @ + 1,
                                             !.shutdownSeconds = seconds,
                                             !.listening =
                                                 IF @ = "yes" THEN "closed" ELSE @],
                            !.wg = @ - 1]
    /\ UNCHANGED sync
    /\ LifeUnchanged

\* A tick of the ticker, into the one-place channel ticker.C.
TickerFires ==
    /\ Running /\ Positive(sync.ticker) /\ sync.pc \in {"initial", "select"}
    /\ ~sync.tickC /\ sync.ticks < MaxTicks
    /\ sync' = [sync EXCEPT !.tickC = TRUE]
    /\ UNCHANGED life
    /\ LifeUnchanged

\* case <-ticker.C: the tick is received and its fetch made.
ReceiveTick(resp) ==
    LET r == fetchUserMappingsFromAPI(sync.config, StoreState, resp)
    IN /\ Running /\ sync.pc = "select" /\ sync.tickC
       /\ Fetched(r, FetchExchange("tick", r, resp, 0))
       /\ sync' = LoopAfterFetch([sync EXCEPT !.ticks = @ + 1, !.tickC = FALSE], r.err)
       /\ SyncUnchanged

\* case <-ctx.Done(): return, and the deferred ticker.Stop().
ReceiveDone ==
    /\ Running /\ sync.pc = "select" /\ life.cancelled
    /\ sync' = [sync EXCEPT !.pc = "stopped", !.ticker = ZeroDuration, !.tickC = FALSE]
    /\ Commit(Mappings, gor, [NoExchange EXCEPT !.kind = "cancel"], heap)
    /\ UNCHANGED lastWrite
    /\ SyncUnchanged

NextLifecycle ==
    \/ HarnessStart
    \/ CancelFires
    \/ HarnessWait
    \/ ProxyStart
    \/ ProxyWake
    \/ \E ok \in BOOLEAN : ProxyLoadConfig(ok)
    \/ APIStart
    \/ \E t \in Tasks : TaskBind(t)
    \/ \E t \in Tasks, enum \in LifecycleEnumerations : TaskAttempt(t, enum)
    \/ \E t \in Tasks : TaskSleep(t)
    \/ \E t \in Tasks : TaskServe(t)
    \/ \E t \in Tasks, ok \in BOOLEAN : TaskListen(t, ok)
    \/ \E t \in Tasks : TaskObserveCancel(t)
    \/ \E t \in Tasks, seconds \in {0, ShutdownTimeoutSeconds} : TaskReturn(t, seconds)
    \/ Running /\ StartExternalAPISync
    \/ Running /\ InitialFetch(Unreachable)
    \/ TickerFires
    \/ ReceiveTick(Unreachable)
    \/ ReceiveDone

\* The process at the start of main.
InitLifecycle ==
    /\ proxyConfig = getProxyConfig(Env(<<>>, "", <<>>))
    /\ restConfig = Creds("sa-token", "", "", "", "")
    /\ InitStore
    /\ loc = IdleLocator
    /\ \E env \in BindEnvs :
           /\ life = [IdleLife EXCEPT !.env = env]
           /\ sync = [IdleSync EXCEPT !.pc = "unstarted",
                                      !.config = LifecycleConfig(env)]

SpecLifecycle == InitLifecycle /\ [][NextLifecycle]_vars

\* C21: at a select the sync loop reaches with the cancellation signal already
\* fired it returns and starts no other fetch: from such a select the loop
\* makes no fetch, and its next step is its return.
C21_ExitsAtNextSelect ==
    [][(sync.pc = "select" /\ life.cancelled) =>
          /\ sync'.fetches = sync.fetches
          /\ sync'.pc \in {"select", "stopped"}]_vars

\* The sync loop is not running: it was never started, or it has returned.
SyncLoopFinished == sync.pc \in {"unstarted", "returned", "stopped"}

\* C22: wg.Wait() returns only after the reverse proxy, the management API
\* and the sync loop have each finished: none of the three is running when
\* the process is allowed to exit.
C22_WaitsForAllThree ==
    life.waited =>
        /\ life.proxy.pc = "returned"
        /\ life.api.pc = "returned"
        /\ SyncLoopFinished

\* A step of StartK8sProxy.
ProxyTaskStep ==
    \/ ProxyStart
    \/ ProxyWake
    \/ \E ok \in BOOLEAN : ProxyLoadConfig(ok)
    \/ TaskBind("proxy")
    \/ \E enum \in LifecycleEnumerations : TaskAttempt("proxy", enum)
    \/ TaskSleep("proxy")
    \/ TaskServe("proxy")
    \/ TaskObserveCancel("proxy")
    \/ \E seconds \in {0, ShutdownTimeoutSeconds} : TaskReturn("proxy", seconds)

\* A step of StartAPIServer.
APITaskStep ==
    \/ APIStart
    \/ TaskBind("api")
    \/ \E enum \in LifecycleEnumerations : TaskAttempt("api", enum)
    \/ TaskSleep("api")
    \/ TaskServe("api")
    \/ TaskObserveCancel("api")
    \/ \E seconds \in {0, ShutdownTimeoutSeconds} : TaskReturn("api", seconds)

\* The process with its goroutines scheduled: a started function that can take
\* a step takes one (time.Sleep returns, srv.Shutdown returns within its
\* timeout).
SpecLifecycleFair ==
    /\ SpecLifecycle
    /\ WF_vars(HarnessStart)
    /\ WF_vars(ProxyTaskStep)
    /\ WF_vars(APITaskStep)

\* The function of task t has returned after its shutdown.
Returned(t) == life[t].pc = "returned"

\* What holds of task t at every moment: it begins its shutdown only after
\* the cancellation, the shutdown takes at most 10 s, and it has called
\* wg.Done() once when it has returned and not before.
ShutdownOnce(t) ==
    /\ life[t].pc \in {"shutdown", "returned"} => life.cancelled
    /\ life[t].shutdownSeconds <= 10
    /\ life[t].done = (IF Returned(t) THEN 1 ELSE 0)

\* C23: once the cancellation signal has fired, StartK8sProxy and
\* StartAPIServer each begin a shutdown bounded by 10 s and return, calling
\* wg.Done() exactly once, wherever the function was when the signal fired
\* (unless os.Exit(1) ends the process first); and wg.Wait() returns only
\* after both have returned.
C23_ShutdownCompletes ==
    /\ [](ShutdownOnce("proxy") /\ ShutdownOnce("api"))
    /\ [](life.wg = (IF life.started THEN 2 ELSE 0) - life.proxy.done - life.api.done)
    /\ [](life.waited => (Returned("proxy") /\ Returned("api")))
    /\ life.cancelled ~> (life.exited \/ Returned("proxy"))
    /\ life.cancelled ~> (life.exited \/ Returned("api"))

\* The signal fired while StartK8sProxy was in its startup wait and
\* StartAPIServer in the locator's loop; both have returned, one after a
\* shutdown that took the whole 10 s, each with one wg.Done().
C23_Witness ==
    /\ life.cancelAt = [proxy |-> "startupWait", api |-> "locating"]
    /\ Returned("proxy") /\ Returned("api")
    /\ life.proxy.done = 1 /\ life.api.done = 1 /\ life.wg = 0
    /\ life.proxy.shutdownSeconds = 10 /\ life.api.shutdownSeconds = 0
    /\ life.proxy.consulted

(***************************************************************************)
(* Forwarding errors.  httputil.ReverseProxy calls proxy.ErrorHandler when *)
(* the round trip to the Kubernetes API server fails, before any part of   *)
(* the response has been written.                                          *)
(***************************************************************************)
StatusBadGateway == 502

\* strings.Contains
Contains(s, substr) ==
    \E i \in 1..(Len(s) - Len(substr) + 1) : SubSeq(s, i, i + Len(substr) - 1) = substr

\* fmt.Errorf(prefix + ": %w", e)
Wrap(prefix, e) == [is |-> e.is, message |-> prefix \o ": " \o e.message]

\* errors.New(text)
ErrorsNew(text) == [is |-> {}, message |-> text]

ContextCanceled == [is |-> {"context.Canceled"}, message |-> "context canceled"]
ErrAbortHandler == [is |-> {"http.ErrAbortHandler"}, message |-> "net/http: abort Handler"]
DeadlineExceeded ==
    [is |-> {"context.DeadlineExceeded"}, message |-> "context deadline exceeded"]

\* The errors a round trip ends with.
TransportErrors ==
    {ContextCanceled,
     Wrap("round trip", ContextCanceled),
     ErrAbortHandler,
     DeadlineExceeded,
     ErrorsNew("readfrom tcp 10.0.0.1:8085: client disconnected"),
     ErrorsNew("net/http: request canceled while waiting for connection"),
     ErrorsNew("context canceled"),
     ErrorsNew("Client Disconnected"),
     ErrorsNew("dial tcp 10.96.0.1:443: connect: connection refused"),
     ErrorsNew("")}

IsBenign_SentinelsOnly(err) ==
    "context.Canceled" \in err.is \/ "http.ErrAbortHandler" \in err.is

\* The two tests of proxy.ErrorHandler that make it return at once.
IsBenign(err) ==
    \/ "context.Canceled" \in err.is \/ "http.ErrAbortHandler" \in err.is
    \/ Contains(err.message, "client disconnected")
    \/ Contains(err.message, "request canceled")

\* proxy.ErrorHandler on the exchange l of a forwarded request.
ErrorHandler(l, err) ==
    IF IsBenign(err)
    THEN [l EXCEPT !.transport = err, !.status = 0, !.cors = FALSE]
    ELSE [l EXCEPT !.transport = err, !.logged = TRUE, !.cors = FALSE,
                   !.status = StatusBadGateway, !.body = "upstream error"]

\* A proxied request whose round trip to the API server fails with err.
ProxyError(clientIP, r, err) ==
    LET l == ServeProxy(proxyConfig, restConfig, Mappings, heap,
                        Request(clientIP, r.method, r.route, r.headers))
    IN /\ l.forwarded
       /\ Commit(Mappings, gor, ErrorHandler(l, err), heap)
       /\ UNCHANGED <<life, loc, sync, proxyConfig, restConfig, mutex, lastWrite>>

\* The mappings posted while requests are forwarded.
ForwardBodies == {body \in PostBodies : body.user = "alice" /\ body.groups = <<"g1">>}

NextForward ==
    \/ \E ip \in IPs, r \in ProxyRequests : ProxyRequest(ip, r)
    \/ \E ip \in IPs, r \in ProxyRequests, err \in TransportErrors :
          ProxyError(ip, r, err)
    \/ \E body \in ForwardBodies : PostUserMapping(body)

SpecForward == Init /\ [][NextForward]_vars

\* The round trip of the last proxied request failed.
RoundTripFailed == last.kind = "proxy" /\ last.forwarded /\ last.transport # NoError

\* C24: a forwarding error that is a context cancellation or an aborted
\* handler, or whose text contains "client disconnected" or "request
\* canceled", is neither logged nor answered; any other one is logged and
\* answered 502.
C24_BenignErrorsAreSilent ==
    RoundTripFailed =>
        LET err == last.transport
            benign == \/ "context.Canceled" \in err.is
                      \/ "http.ErrAbortHandler" \in err.is
                      \/ Contains(err.message, "client disconnected")
                      \/ Contains(err.message, "request canceled")
        IN IF benign
           THEN ~last.logged /\ last.status = 0 /\ last.body = ""
           ELSE last.logged /\ last.status = StatusBadGateway

\* A round trip failed with an error that only wraps the text "client
\* disconnected": nothing was logged, nothing written.
C24_Witness ==
    /\ RoundTripFailed
    /\ last.transport.is = {}
    /\ Contains(last.transport.message, "client disconnected")
    /\ ~last.logged /\ last.status = 0

(***************************************************************************)
(* OPTIONS on the proxy's routes.                                          *)
(***************************************************************************)
\* The routes the proxy registers.
ProxiedRoutes == {"/api/*path", "/apis/*path", "/version", "/metrics"}

\* C25: an OPTIONS request to any proxied route is answered 200 with the
\* CORS headers and is not forwarded to the Kubernetes API server.
C25_OptionsShortCircuited ==
    (last.kind = "proxy" /\ last.method = "OPTIONS" /\ last.route \in ProxiedRoutes)
        => /\ ~last.forwarded
           /\ last.status = StatusOK
           /\ last.cors

(***************************************************************************)
(* POST /admin/user-mappings.  In last, ip, user and groups are the fields *)
(* of the answer's body; lastWrite holds what the request's body carried.  *)
(***************************************************************************)
\* C26: POST /admin/user-mappings with ip or user empty is answered 400 and
\* leaves the store as it was; with both present it is answered 200, echoes
\* ip, user and groups, and the store then maps ip to exactly (user, groups),
\* whatever it held for ip before, and holds for every other IP what it held.
C26_PostValidatesThenWrites ==
    [][last'.kind = "post" =>
          IF last'.ip # "" /\ last'.user # ""
          THEN /\ last'.status = StatusOK
               /\ lastWrite'[last'.ip] =
                     [kind |-> "set", user |-> last'.user,
                      groups |-> Deref(heap', last'.groups), by |-> "post"]
               /\ last'.ip \in DOMAIN Mappings'
               /\ StoreView'[last'.ip] =
                     [user |-> last'.user, groups |-> Deref(heap', last'.groups)]
               /\ DOMAIN Mappings' = DOMAIN Mappings \cup {last'.ip}
               /\ \A ip \in DOMAIN Mappings \ {last'.ip} : StoreView'[ip] = StoreView[ip]
          ELSE /\ last'.status = StatusBadRequest
               /\ StoreView' = StoreView]_vars

\* A POST for an IP that had a mapping was answered 200 and the store now
\* maps that IP to bob with the two groups of the body.
C26_Witness ==
    /\ last.kind = "post" /\ last.status = StatusOK /\ last.hadMapping
    /\ last.user = "bob"
    /\ StoreView[last.ip] = [user |-> "bob", groups |-> <<"g1", "g2">>]
    /\ Cardinality(DOMAIN Mappings) = 2

(***************************************************************************)
(* POST /admin/sync-external-api.                                          *)
(***************************************************************************)
\* The last step was a POST /admin/sync-external-api: answered before any
\* fetch (kind "sync"), or after the one fetch it makes.
ManualSync == last'.kind = "sync" \/ (last'.kind = "fetch" /\ last'.via = "manual")

\* C27: POST /admin/sync-external-api is answered 400 exactly when the server
\* domain or the API token is empty, without a fetch and with the store as
\* it was; 500 exactly when its one fetch fails; and 200 exactly when that
\* fetch succeeded, the store then being the store before overlaid with the
\* payload.
C27_ManualSyncOutcomes ==
    [][ManualSync =>
          LET failed == \/ ~last'.requested
                        \/ last'.response.err
                        \/ last'.response.StatusCode # 200
                        \/ ~last'.response.decodes
          IN /\ last'.status \in {StatusBadRequest, StatusInternalServerError, StatusOK}
             /\ last'.status = StatusBadRequest <=> Unconfigured
             /\ last'.status = StatusBadRequest =>
                   /\ last'.kind = "sync" /\ ~last'.requested
                   /\ StoreView' = StoreView
             /\ last'.status = StatusInternalServerError <=> (~Unconfigured /\ failed)
             /\ last'.status = StatusInternalServerError =>
                   /\ last'.kind = "fetch" /\ last'.err
                   /\ StoreView' = StoreView
             /\ last'.status = StatusOK =>
                   /\ last'.kind = "fetch" /\ last'.requested /\ ~last'.err
                   /\ StoreView' = Overlay(StoreView, last'.response.Mappings)]_vars

\* A POST /admin/sync-external-api was answered 200 after a fetch whose
\* payload is in the store next to a mapping the payload does not name.
C27_Witness ==
    /\ last.kind = "fetch" /\ last.via = "manual" /\ last.status = StatusOK
    /\ last.response.Mappings # NoMappings
    /\ \A ip \in DOMAIN last.response.Mappings :
          /\ ip \in DOMAIN Mappings
          /\ StoreView[ip].user = last.response.Mappings[ip].User
    /\ \E ip \in DOMAIN Mappings : ip \notin DOMAIN last.response.Mappings

(***************************************************************************)
(* The listen addresses.                                                   *)
(***************************************************************************)
\* Task t has computed its listen address.
HasAddr(t) == life[t].addr # ""

\* C28: the listen address of the proxy is PROXY_BIND_IP's value when the
\* variable is set, the locator then not being consulted; else the locator's
\* result when that is not empty; else all interfaces.  The management
\* server's address follows the same rule with API_BIND_IP.
C28_BindPriority ==
    \A t \in Tasks :
        HasAddr(t) =>
            LET v == life.env[BindVariable(t)]
            IN IF v.set
               THEN /\ ~life[t].consulted
                    /\ life[t].addr = Addr(v.value, Port(t))
               ELSE /\ life[t].consulted
                    /\ life[t].addr = Addr(life[t].bindIP, Port(t))

\* C29: with PROXY_BIND_IP set to the empty string the proxy listens on all
\* interfaces, whether or not the host has an overlay interface address.
C29_EmptyOverrideBindsAll ==
    (HasAddr("proxy") /\ life.env.PROXY_BIND_IP = SetTo(""))
        => life.proxy.addr = ":8085"

(***************************************************************************)
(* The whole process around the store: the sync loop with its ticker, the  *)
(* management API with all its endpoints, and proxied requests.            *)
(***************************************************************************)
NextProcess ==
    \/ NextSync
    \/ \E ip \in IPs, r \in ProxyRequests : ProxyRequest(ip, r)
    \/ GetUserMappings

SpecProcess == InitSync /\ [][NextProcess]_vars

WritersInside == {g \in Goroutines : gor[g].pc = "write"}

ReadersInside == {g \in Goroutines : gor[g].pc = "read"}

\* C31: set and remove are inside the critical section only as the holder of
\* the exclusive lock, get and all only as holders of the shared lock; a
\* writer is inside with no other writer and no reader; and whatever a set or
\* a remove left when it released the lock is what the store holds for every
\* later get.
C31_LockDiscipline ==
    /\ \A g \in WritersInside :
          gor[g].op \in {"set", "remove"} /\ mutex.writer = g
    /\ \A g \in ReadersInside :
          gor[g].op \in {"get", "all"} /\ g \in mutex.readers
    /\ \A g \in Goroutines :
          /\ gor[g].op \in {"set", "remove"} => gor[g].pc \in {"lock", "write", "ret"}
          /\ gor[g].op \in {"get", "all"} => gor[g].pc \in {"rlock", "read"}
    /\ WritersInside # {} => (Cardinality(WritersInside) = 1 /\ ReadersInside = {})
    /\ StoreView = WrittenView

\* Two readers are inside the critical section at once, one of them a get
\* for an IP that a set wrote before.
C31_Witness ==
    /\ Cardinality(ReadersInside) >= 2
    /\ mutex.readers = ReadersInside
    /\ \E g \in ReadersInside :
          /\ gor[g].op = "get"
          /\ lastWrite[gor[g].ip].kind = "set"
          /\ gor[g].ip \in DOMAIN Mappings

(***************************************************************************)
(* The order of locating and listening.                                    *)
(***************************************************************************)
\* The socket of task t is being opened or is open.
SocketOpen(t) == life[t].listening \in {"starting", "yes"}

\* C32: without a bind-IP override the proxy opens its listening socket only
\* after its call of the locator has returned: while the locator is trying or
\* waiting there is no socket, and where there is a socket the locator was
\* consulted and is no longer running.
C32_ListensAfterLocator ==
    /\ life.proxy.pc \in {"idle", "start", "startupWait", "config", "bind", "locating", "serve"}
          => life.proxy.listening = "no"
    /\ life.proxy.l.pc \in {"attempt", "sleep"} => life.proxy.listening = "no"
    /\ (SocketOpen("proxy") /\ Getenv(life.env.PROXY_BIND_IP) = "") =>
          /\ life.proxy.consulted
          /\ life.proxy.l.pc = "idle"
          /\ life.proxy.addr = Addr(life.proxy.bindIP, "8085")

\* PROXY_BIND_IP is not set, the locator gave up after its retries, and the
\* proxy accepts requests on all interfaces.
C32_Witness ==
    /\ ~life.env.PROXY_BIND_IP.set
    /\ life.proxy.consulted
    /\ life.proxy.listening = "yes"
    /\ life.proxy.bindIP = "" /\ life.proxy.addr = ":8085"

(***************************************************************************)
(* The frame of a proxied request.                                         *)
(***************************************************************************)
\* Proxied requests, answered or failing in the round trip, around a
\* middleware built from an arbitrary ProxyConfig value, so that the 500 of
\* an unknown mode is among the answers.
NextRequests ==
    \/ \E ip \in IPs, r \in ProxyRequests : ProxyRequest(ip, r)
    \/ \E ip \in IPs, r \in ProxyRequests,
          err \in {ContextCanceled,
                   ErrorsNew("dial tcp 10.96.0.1:443: connect: connection refused")} :
          ProxyError(ip, r, err)
    \/ \E body \in ForwardBodies : PostUserMapping(body)

SpecRequests == InitAnyMode /\ [][NextRequests]_vars

\* C33: handling a proxied request, forwarded or answered 401, 500 or 502,
\* leaves the store, the proxy configuration and the credentials as they
\* were, and with them what the middleware does with any other request.
C33_ProxyOnlyReads ==
    [][last'.kind = "proxy" =>
          /\ StoreView' = StoreView
          /\ DOMAIN Mappings' = DOMAIN Mappings
          /\ lastWrite' = lastWrite
          /\ proxyConfig' = proxyConfig
          /\ restConfig' = restConfig
          /\ \A ip \in IPs, r \in ProxyRequests :
                ServeProxy(proxyConfig', restConfig', Mappings', heap',
                           Request(ip, r.method, r.route, r.headers))
                  = ServeProxy(proxyConfig, restConfig, Mappings, heap,
                               Request(ip, r.method, r.route, r.headers))]_vars

\* A request from a mapped IP was answered 502 and the store still holds its
\* mapping.
C33_Witness ==
    /\ last.kind = "proxy" /\ last.status = StatusBadGateway
    /\ proxyConfig.Mode = AuthMode
    /\ last.ip \in DOMAIN Mappings
    /\ lastWrite[last.ip].by = "post"
    /\ OutHeaderIs("Impersonate-User", Mappings[last.ip].User)

(***************************************************************************)
(* Inbound impersonation headers.                                          *)
(***************************************************************************)
\* The identity a forwarded request presents to the API server.
PresentedIdentity(h) ==
    [user |-> GetHeader(h, "Impersonate-User"),
     groups |-> GetHeader(h, "Impersonate-Group")]

\* C34: in auth mode the Impersonate-User and Impersonate-Group of a
\* forwarded request are those of any other forwarded request from the same
\* IP, whatever Impersonate-* headers either arrived with: no inbound value
\* survives, also when the resolved user or group list is empty.
C34_InboundNeverSurvives ==
    (Forwarded /\ proxyConfig.Mode = AuthMode) =>
        \A r \in ProxyRequests :
            LET other == ServeProxy(proxyConfig, restConfig, Mappings, heap,
                                    Request(last.ip, r.method, r.route, r.headers))
            IN other.forwarded =>
                  PresentedIdentity(other.outHeaders) = PresentedIdentity(last.outHeaders)

(***************************************************************************)
(* The lookup key: requests that name a client in their headers.           *)
(***************************************************************************)
\* kubectl's headers with an X-Forwarded-For or X-Real-IP header next to
\* them: another peer's address, a list, and text that is no address.
PeerHeaders ==
    {KubectlHeaders,
     SetHeader(KubectlHeaders, "X-Forwarded-For", "10.0.0.2"),
     SetHeader(KubectlHeaders, "X-Forwarded-For", "10.0.0.1, 10.0.0.2"),
     SetHeader(KubectlHeaders, "X-Forwarded-For", "unknown"),
     SetHeader(KubectlHeaders, "X-Real-IP", "10.0.0.1"),
     SetHeader(SetHeader(KubectlHeaders, "X-Forwarded-For", "10.0.0.300"),
               "X-Real-IP", "10.0.0.2")}

PeerRequests ==
    {[method |-> "GET", route |-> "/api/*path", headers |-> h] : h \in PeerHeaders}

NextPeer ==
    \/ \E ip \in IPs, r \in PeerRequests : ProxyRequest(ip, r)
    \/ \E body \in ForwardBodies : PostUserMapping(body)

SpecPeer == Init /\ [][NextPeer]_vars

\* C35: in auth mode the store is looked up under the peer address of the
\* connection: a forwarded request carries the identity resolved for that
\* address, the same as any other request from that address whatever
\* X-Forwarded-For or X-Real-IP headers either arrived with.
C35_KeyIsPeerAddress ==
    (Forwarded /\ proxyConfig.Mode = AuthMode) =>
        /\ last.ip = last.remoteAddr
        /\ \A r \in PeerRequests :
              LET other == ServeProxy(proxyConfig, restConfig, Mappings, heap,
                                      Request(last.remoteAddr, r.method, r.route,
                                              r.headers))
              IN other.forwarded =>
                    PresentedIdentity(other.outHeaders)
                        = PresentedIdentity(last.outHeaders)

(***************************************************************************)
(* SpecApply: the update loop of fetchUserMappingsFromAPI as the store's   *)
(* other callers see it, one SetUserIPMapping call per entry of the        *)
(* decoded response, next to the management API's goroutines.              *)
(***************************************************************************)
\* The goroutine that runs fetchUserMappingsFromAPI.
SyncGoroutine == CHOOSE g \in Goroutines : \A q \in Goroutines : g <= q

ApplyUnchanged == UNCHANGED <<life, loc, proxyConfig, restConfig, mutex, lastWrite>>

\* json.NewDecoder(resp.Body).Decode(&apiResponse) succeeded with payload P.
BeginApply(P) ==
    /\ sync.pc = "idle" /\ gor[SyncGoroutine].pc = "idle"
    /\ sync' = [sync EXCEPT !.pc = "applying", !.payload = P, !.applied = {}]
    /\ Commit(Mappings, gor, NoExchange, heap)
    /\ ApplyUnchanged

ApplyEntry_WholePayload(ip) ==
    LET st == UpdateFromResponse(StoreState, sync.payload)
    IN /\ sync.pc = "applying" /\ gor[SyncGoroutine].pc = "idle"
       /\ ip \in DOMAIN sync.payload \ sync.applied
       /\ sync' = [sync EXCEPT !.applied = DOMAIN sync.payload]
       /\ Commit(st.m, gor, NoExchange, st.h)
       /\ lastWrite' = st.lw
       /\ UNCHANGED <<life, loc, proxyConfig, restConfig, mutex>>

\* for ip, mapping := range apiResponse.Mappings: the next entry, in any
\* order, and the call SetUserIPMapping(ip, mapping.User, mapping.Groups) up
\* to its Lock().
ApplyEntry(ip) ==
    LET mapping == sync.payload[ip]
        ref == NewSliceRef(heap, mapping.Groups)
    IN /\ sync.pc = "applying" /\ gor[SyncGoroutine].pc = "idle"
       /\ ip \in DOMAIN sync.payload \ sync.applied
       /\ sync' = [sync EXCEPT !.applied = @ \cup {ip}]
       /\ Commit(Mappings,
                 [gor EXCEPT ![SyncGoroutine] =
                     [Enter("lock", "set", ip) EXCEPT
                         !.user = mapping.User, !.groups = ref]],
                 NoExchange, NewSliceHeap(heap, ref, mapping.Groups))
       /\ ApplyUnchanged

\* The range loop is over: return nil.
EndApply ==
    /\ sync.pc = "applying" /\ gor[SyncGoroutine].pc = "idle"
    /\ sync.applied = DOMAIN sync.payload
    /\ sync' = [sync EXCEPT !.pc = "idle", !.payload = NoMappings, !.applied = {}]
    /\ Commit(Mappings, gor, NoExchange, heap)
    /\ ApplyUnchanged

NextApply ==
    \/ \E P \in Payloads : BeginApply(P)
    \/ \E ip \in IPs : ApplyEntry(ip)
    \/ EndApply
    \/ \E g \in Goroutines \ {SyncGoroutine} :
          \/ \E ip \in IPs, id \in StoreIdentities : CallSet(g, ip, id)
          \/ \E ip \in IPs : CallRemove(g, ip)
          \/ \E ip \in IPs : CallGet(g, ip)
          \/ CallAll(g)
          \/ RLock(g)
          \/ RemoveBody(g)
          \/ GetBody(g)
          \/ AllBody(g)
    \/ \E g \in Goroutines :
          \/ Lock(g)
          \/ SetBody(g)
          \/ Return(g)

SpecApply == InitStoreOnly /\ [][NextApply]_vars

\* The IPs whose entry a step changed.
ChangedEntries ==
    {ip \in IPs :
        \/ (ip \in DOMAIN Mappings) # (ip \in DOMAIN Mappings')
        \/ /\ ip \in DOMAIN Mappings /\ ip \in DOMAIN Mappings'
           /\ StoreView[ip] # StoreView'[ip]}

\* C36: a sync writes its payload one entry at a time, each under its own
\* acquisition of the store lock: no step changes more than one entry, the
\* sync goroutine takes the lock for one SetUserMapping of one payload entry
\* and releases it with that write, and it never holds the lock between two
\* entries.  (That others see and change the store between two entries is
\* shown by the reachable states C36_Witness and C36_WitnessInterleaved.)
C36_EntryAtATime ==
    [][/\ Cardinality(ChangedEntries) <= 1
       /\ (mutex'.writer = SyncGoroutine /\ mutex.writer # SyncGoroutine) =>
             /\ gor'[SyncGoroutine].pc = "write" /\ gor'[SyncGoroutine].op = "set"
             /\ gor'[SyncGoroutine].ip \in sync.applied
       /\ (mutex.writer = SyncGoroutine /\ ChangedEntries # {}) =>
             /\ ChangedEntries = {gor[SyncGoroutine].ip}
             /\ mutex'.writer = 0
       /\ sync'.applied # sync.applied => mutex.writer # SyncGoroutine]_vars

\* While a payload of two entries is being applied, GetAllMappings has
\* returned a map with one of the two entries and without the other.
C36_Witness ==
    /\ sync.pc = "applying" /\ Cardinality(DOMAIN sync.payload) = 2
    /\ last.kind = "GetAllMappings"
    /\ \E ip \in DOMAIN sync.payload :
          /\ ip \in DOMAIN last.data
          /\ last.data[ip].User = sync.payload[ip].User
          /\ \E other \in DOMAIN sync.payload : other \notin DOMAIN last.data

\* The sync goroutine is about to write the second of two entries, and the
\* first, which it wrote, has been removed through the management API since.
C36_WitnessInterleaved ==
    /\ sync.pc = "applying" /\ Cardinality(DOMAIN sync.payload) = 2
    /\ gor[SyncGoroutine].pc = "write"
    /\ \E ip \in sync.applied \ {gor[SyncGoroutine].ip} :
          ip \notin DOMAIN Mappings /\ lastWrite[ip] = NoWrite

(***************************************************************************)
(* Management writes against the remote source.                           *)
(***************************************************************************)
\* What payload P says for ip.
PayloadView(P, ip) == [user |-> P[ip].User, groups |-> P[ip].Groups]

\* C37: a successful sync writes every ip of its payload, whatever the
\* management API did to that ip before: an ip removed through DELETE is in
\* the store again, and an ip written through POST holds the payload's value
\* and no longer the posted one.
C37_SyncUndoesManagement ==
    [][FetchSucceeded =>
          \A ip \in DOMAIN last'.response.Mappings :
              LET v == PayloadView(last'.response.Mappings, ip)
              IN /\ ip \in DOMAIN Mappings'
                 /\ StoreView'[ip] = v
                 /\ lastWrite'[ip].by = "sync"
                 /\ (last.kind = "delete" /\ last.status = StatusOK /\ last.ip = ip) =>
                       (ip \notin DOMAIN Mappings /\ last'.undid = "delete")
                 /\ (last.kind = "post" /\ last.status = StatusOK /\ last.ip = ip) =>
                       /\ lastWrite[ip].by = "post"
                       /\ last'.undid = "post"]_vars

\* A tick's fetch succeeded right after a DELETE for 10.0.0.1, with a payload
\* that names 10.0.0.1: the mapping is in the store again.
C37_Witness ==
    /\ last.kind = "fetch" /\ last.via = "tick" /\ ~last.err
    /\ last.undid = "delete" /\ last.ip = "10.0.0.1"
    /\ "10.0.0.1" \in DOMAIN Mappings
    /\ StoreView["10.0.0.1"] = PayloadView(last.response.Mappings, "10.0.0.1")

\* A fetch succeeded right after a POST of bob for 10.0.0.1, with a payload
\* that says alice: the store says alice.
C37_WitnessOverwritten ==
    /\ last.kind = "fetch" /\ ~last.err
    /\ last.undid = "post" /\ last.ip = "10.0.0.1"
    /\ last.response.Mappings["10.0.0.1"].User = "alice"
    /\ StoreView["10.0.0.1"].user = "alice"

(***************************************************************************)
(* The two servers' addresses.                                             *)
(***************************************************************************)
\* C38: with neither PROXY_BIND_IP nor API_BIND_IP set, the proxy and the
\* management server listen on the same IP address.
C38_SameBindIP ==
    (/\ ~life.env.PROXY_BIND_IP.set /\ ~life.env.API_BIND_IP.set
     /\ HasAddr("proxy") /\ HasAddr("api"))
        => life.proxy.bindIP = life.api.bindIP

(***************************************************************************)
(* The proxy mode.                                                         *)
(***************************************************************************)
\* getProxyConfig's mode for PROXY_MODE = text.
ModeOf(text) == getProxyConfig(Env(Chars(text), "", <<>>)).Mode

\* C39: getProxyConfig yields auth or noauth, comparing PROXY_MODE without
\* regard to case and taking auth for an unset or unrecognized value; the
\* mode of a running process is one of the two, never changes, and no
\* proxied request is answered with the 500 of an unknown mode.
C39_ModeIsAuthOrNoAuth ==
    /\ [](/\ ModeOf("") = AuthMode
          /\ ModeOf("auth") = AuthMode /\ ModeOf("AUTH") = AuthMode
          /\ ModeOf("noauth") = NoAuthMode /\ ModeOf("NoAuth") = NoAuthMode
          /\ ModeOf("NOAUTH") = NoAuthMode
          /\ ModeOf("bogus") = AuthMode /\ ModeOf("noauth ") = AuthMode
          /\ ModeOf("no") = AuthMode
          /\ proxyConfig.Mode \in {AuthMode, NoAuthMode}
          /\ last.kind = "proxy" => last.status # StatusInternalServerError)
    /\ [][proxyConfig' = proxyConfig]_vars

\* A process started with an unrecognized PROXY_MODE runs in auth mode: a
\* request from an IP without a mapping was forwarded with the configured
\* default user.
C39_Witness ==
    /\ proxyConfig = getProxyConfig(Env(Chars("bogus"), "svc-peer", Chars("dev, ops")))
    /\ proxyConfig.Mode = AuthMode
    /\ Forwarded /\ last.ip \notin DOMAIN Mappings
    /\ OutHeaderIs("Impersonate-User", "svc-peer")

(***************************************************************************)
(* The sync interval.                                                      *)
(***************************************************************************)
\* EXTERNAL_API_SYNC_INTERVAL unset; no integer; zero; negative; positive,
\* with and without a sign; the largest number of seconds whose nanoseconds
\* fit an int64, and the number after it; numbers of seconds whose
\* nanoseconds wrap around to a fraction of a second and to 0; and a number
\* outside int64.
IntervalTexts ==
    {"", "5m", "0", "-5", "5", "+7", "9223372036", "9223372037", "18446744074",
     "36028797018963968", "9223372036854775808"}

\* The sync interval getNMAPIConfig produces for EXTERNAL_API_SYNC_INTERVAL =
\* text.
IntervalOf(text) ==
    getNMAPIConfig(APIEnv("api.example.com", "token", Chars(text))).SyncInterval

NextInterval ==
    \/ StartExternalAPISync
    \/ \E resp \in ResponsesFor(sync.config) : InitialFetch(resp)
    \/ \E resp \in ResponsesFor(sync.config) : Tick(resp)
    \/ Cancel

\* The process after StartK8sProxy read a configuration with the server
\* domain and the token set.
InitInterval ==
    /\ proxyConfig = getProxyConfig(Env(<<>>, "", <<>>))
    /\ restConfig = Creds("sa-token", "", "", "", "")
    /\ InitStore
    /\ loc = IdleLocator
    /\ life = IdleLife
    /\ \E text \in IntervalTexts :
           sync = [IdleSync EXCEPT
                      !.config = getNMAPIConfig(APIEnv("api.example.com", "token",
                                                       Chars(text)))]

SpecInterval == InitInterval /\ [][NextInterval]_vars

\* n seconds, as the duration of that many nanoseconds.
WholeSeconds(secs) == [neg |-> FALSE, ns |-> Canonical(secs \o [i \in 1..9 |-> 0])]

\* The default, 30 s.
DefaultInterval == WholeSeconds(NumeralOf(DefaultSyncIntervalSeconds))

\* C40: the sync interval getNMAPIConfig produces is strictly positive: the
\* 30 s default for EXTERNAL_API_SYNC_INTERVAL unset, no integer, zero or
\* negative, and n seconds for a positive integer n; the sync loop never
\* creates its ticker with a period that is not positive.
C40_IntervalPositive ==
    /\ IntervalOf("") = DefaultInterval /\ IntervalOf("5m") = DefaultInterval
    /\ IntervalOf("0") = DefaultInterval /\ IntervalOf("-5") = DefaultInterval
    /\ \A text \in {"5", "+7", "9223372036", "9223372037", "18446744074",
                    "36028797018963968"} :
           IntervalOf(text) =
               WholeSeconds(Numeral(IF Head(Chars(text)) = "+"
                                    THEN Tail(Chars(text)) ELSE Chars(text)))
    /\ Positive(sync.config.SyncInterval)
    /\ sync.pc # "panicked"

\* What holds of the interval: the default for a value that is unset, no
\* integer, zero, negative or outside int64, and n seconds for a positive n
\* up to 9223372036, whose nanoseconds fit an int64.
C40_SmallIntervals ==
    /\ \A text \in {"", "5m", "0", "-5", "9223372036854775808"} :
           IntervalOf(text) = DefaultInterval
    /\ \A text \in {"5", "9223372036"} :
           IntervalOf(text) = WholeSeconds(Numeral(Chars(text)))
    /\ IntervalOf("+7") = WholeSeconds(NumeralOf(7))
    /\ sync.pc \in {"initial", "select"} => Positive(sync.ticker)

\* NewTicker panicked: 9223372037 s are -9223372036709551616 ns as an int64.
C40_Panicked ==
    /\ sync.pc = "panicked"
    /\ sync.config.SyncInterval =
           [neg |-> TRUE, ns |-> Numeral(Chars("9223372036709551616"))]

\* 18446744074 s wrap around to 290448384 ns, and the loop ticks at that
\* period.
C40_FractionOfASecond ==
    /\ sync.pc = "select" /\ sync.ticks >= 1
    /\ sync.ticker = [neg |-> FALSE, ns |-> Numeral(Chars("290448384"))]
====
